---------------------------- MODULE Spec2Model ----------------------------
(***************************************************************************)
(* The neural field-embedding engine of server/python:                     *)
(*   tensorflow_field_model.py  NeuralFieldEmbedding (encoder, network,    *)
(*                              trainer, persistence)                      *)
(*   field_matcher_ml.py        FieldMatcherML (lexical scorer, its        *)
(*                              constructor loading the model artifact)    *)
(*   create_pretrained_model.py the "pretrained" weight assignment         *)
(*                                                                         *)
(* A field name is a sequence of one-character strings.  Floating point    *)
(* values are fixed-point integers: the real 1.0 is Scale.  Feature        *)
(* vectors keep exact reduced fractions <<n, d>>.                          *)
(***************************************************************************)
EXTENDS Integers, Sequences, FiniteSets, TLC

VARIABLES
    model,      \* the network of the training / pretraining script (a Net or Null)
    train,      \* the position of the running train_on_pairs call, its total_loss,
                \* the log of the pairs it has processed and the network it
                \* started from
    file,       \* the artifact at models/demographic_field_model.pkl
    matcher,    \* the FieldMatcherML instance (its neural_model, model_loaded)
    result,     \* what the last call returned or raised
    probe       \* the arguments of the pure-function specifications

vars == <<model, train, file, matcher, result, probe>>

Null == [kind |-> "null"]

NoResult == [fn |-> "none"]

\* no train_on_pairs call is running
Idle == [active |-> FALSE, calls |-> 0]

(***************************************************************************)
(* Bounds of the model.                                                    *)
(***************************************************************************)
\* longest short name the encoder specification enumerates
MaxNameLen == 3

(***************************************************************************)
(* Sequences, characters and str.lower().                                  *)
(***************************************************************************)
RECURSIVE SumRange(_, _, _)
\* f[lo] + ... + f[hi]
SumRange(f, lo, hi) ==
    IF lo > hi THEN 0
    ELSE IF lo = hi THEN f[lo]
    ELSE LET mid == (lo + hi) \div 2
         IN  SumRange(f, lo, mid) + SumRange(f, mid + 1, hi)

\* np.sum over a sequence
SumSeq(s) == SumRange(s, 1, Len(s))

\* an array held as the tuple of its entries
Arr(f) == f \o <<>>

\* Body applied to the value of an expression, computed once
Evaluated(value, Body(_)) == CHOOSE r \in {Body(v) : v \in {value}} : TRUE

Rep(c, n) == [i \in 1..n |-> c]

Take(s, n) == IF Len(s) <= n THEN s ELSE SubSeq(s, 1, n)

Min2(a, b) == IF a <= b THEN a ELSE b

Max2(a, b) == IF a >= b THEN a ELSE b

Abs(a) == IF a < 0 THEN -a ELSE a

RECURSIVE Gcd(_, _)
Gcd(a, b) == IF b = 0 THEN a ELSE Gcd(b, a % b)

UpperChars == <<"A","B","C","D","E","F","G","H","I","J","K","L","M",
                "N","O","P","Q","R","S","T","U","V","W","X","Y","Z">>

LowerChars == <<"a","b","c","d","e","f","g","h","i","j","k","l","m",
                "n","o","p","q","r","s","t","u","v","w","x","y","z">>

IndexIn(seq, c) == CHOOSE i \in 1..Len(seq) : seq[i] = c

IsUpper(c) == \E i \in 1..Len(UpperChars) : UpperChars[i] = c

IsLower(c) == \E i \in 1..Len(LowerChars) : LowerChars[i] = c

LowerChar(c) == IF IsUpper(c) THEN LowerChars[IndexIn(UpperChars, c)] ELSE c

UpperChar(c) == IF IsLower(c) THEN UpperChars[IndexIn(LowerChars, c)] ELSE c

\* str.lower()
Lower(s) == [i \in 1..Len(s) |-> LowerChar(s[i])]

\* str.upper()
Upper(s) == [i \in 1..Len(s) |-> UpperChar(s[i])]

(***************************************************************************)
(* FeatureEncoder: NeuralFieldEmbedding._build_char_vocab and              *)
(* _encode_field_name.                                                     *)
(***************************************************************************)
\* chars = 'abcdefghijklmnopqrstuvwxyz0123456789_-. '
VocabChars == LowerChars \o <<"0","1","2","3","4","5","6","7","8","9">>
                         \o <<"_","-","."," ">>

\* variant: the indices counted from 1
VocabOneBased == [c \in {VocabChars[i] : i \in 1..Len(VocabChars)}
                     |-> IndexIn(VocabChars, c)]

\* {char: idx for idx, char in enumerate(chars)}
_build_char_vocab == [c \in {VocabChars[i] : i \in 1..Len(VocabChars)}
                        |-> IndexIn(VocabChars, c) - 1]

\* field_name.lower()[:50]
NameLimit == 50

\* a reduced fraction n/d, d > 0
Frac(n, d) == LET g == Gcd(n, d) IN IF n = 0 THEN <<0, 1>> ELSE <<n \div g, d \div g>>

\* np.zeros(V) incremented once per listed bucket: the count in bucket k (0-based)
CountOf(buckets, k) == Cardinality({i \in 1..Len(buckets) : buckets[i] = k})

\* a histogram over V buckets, divided by its sum when the sum is positive
Normalized(buckets, V) ==
    LET total == Len(buckets)
    IN  [k \in 1..V |-> IF total > 0 THEN Frac(CountOf(buckets, k - 1), total)
                                     ELSE <<0, 1>>]

RECURSIVE SelectIdx(_, _, _)
\* the values f(i), in order, of the positions i of 1..n where f(i) is not -1
SelectIdx(f, i, n) ==
    IF i > n THEN <<>>
    ELSE IF f[i] = -1 THEN SelectIdx(f, i + 1, n)
         ELSE <<f[i]>> \o SelectIdx(f, i + 1, n)

\* variant: a character outside the vocabulary counted in bucket 0
CharBucketsDefaultZero(vocab, name) ==
    [i \in 1..Len(name) |-> IF name[i] \in DOMAIN vocab THEN vocab[name[i]] ELSE 0]

\* the bucket of each character of name that is in the vocabulary
CharBuckets(vocab, name) ==
    LET f == [i \in 1..Len(name) |->
                 IF name[i] \in DOMAIN vocab THEN vocab[name[i]] ELSE -1]
    IN  SelectIdx(f, 1, Len(name))

\* the bucket (idx(c1) + idx(c2)) % V of each adjacent pair with both in the vocabulary
\* variant: the bucket of a pair taken from its first character alone
BigramBucketsFirstChar(vocab, name) ==
    LET V == Cardinality(DOMAIN vocab)
        f == [i \in 1..(Len(name) - 1) |->
                 IF name[i] \in DOMAIN vocab /\ name[i + 1] \in DOMAIN vocab
                 THEN vocab[name[i]] % V
                 ELSE -1]
    IN  SelectIdx(f, 1, Len(name) - 1)

BigramBuckets(vocab, name) ==
    LET V == Cardinality(DOMAIN vocab)
        f == [i \in 1..(Len(name) - 1) |->
                 IF name[i] \in DOMAIN vocab /\ name[i + 1] \in DOMAIN vocab
                 THEN (vocab[name[i]] + vocab[name[i + 1]]) % V
                 ELSE -1]
    IN  SelectIdx(f, 1, Len(name) - 1)

\* variant: padding without the truncation
PadOnly(features, input_dim) ==
    IF Len(features) < input_dim
    THEN features \o Rep(<<0, 1>>, input_dim - Len(features))
    ELSE features

\* np.pad(features, (0, input_dim - len)) or features[:input_dim]
PadOrTruncate(features, input_dim) ==
    IF Len(features) < input_dim
    THEN features \o Rep(<<0, 1>>, input_dim - Len(features))
    ELSE SubSeq(features, 1, input_dim)

\* variant: the cut to 50 characters without the case folding
FoldNoLower(field_name) == Take(field_name, NameLimit)

\* field_name.lower()[:50]
FoldName(field_name) == Take(Lower(field_name), NameLimit)

\* np.concatenate([char_features, bigram_features])
Histograms(net, field_name) ==
    LET name == FoldName(field_name)
        V    == Cardinality(DOMAIN net.char_vocab)
    IN  Normalized(CharBuckets(net.char_vocab, name), V)
        \o Normalized(BigramBuckets(net.char_vocab, name), V)

\* self._encode_field_name(field_name): the single row of the 1 x input_dim result
_encode_field_name(net, field_name) ==
    PadOrTruncate(Histograms(net, field_name), net.input_dim)

(***************************************************************************)
(* Fixed-point arithmetic.  A float x is the integer nearest to x * Scale. *)
(***************************************************************************)
Scale == 10 * 10 * 10

\* a / b rounded to the nearest integer (b > 0)
RoundDiv(a, b) == (2 * a + b) \div (2 * b)

\* the fixed-point value of a feature fraction
ToFixed(fr) == RoundDiv(fr[1] * Scale, fr[2])

RECURSIVE SqrtSearch(_, _, _)
SqrtSearch(n, lo, hi) ==
    IF lo >= hi THEN lo
    ELSE LET mid == (lo + hi + 1) \div 2
         IN  IF mid * mid <= n THEN SqrtSearch(n, mid, hi)
                               ELSE SqrtSearch(n, lo, mid - 1)

\* floor of the square root
ISqrt(n) == SqrtSearch(n, 0, 46340)

\* the square root rounded up
ISqrtUp(n) == LET r == ISqrt(n) IN IF r * r = n THEN r ELSE r + 1

\* the square root rounded to the nearest integer
ISqrtNear(n) == LET r == ISqrt(n) IN IF n - r * r <= r THEN r ELSE r + 1

MaxAbs(v) ==
    IF Len(v) = 0 THEN 0
    ELSE CHOOSE m \in {Abs(v[i]) : i \in 1..Len(v)} : \A i \in 1..Len(v) : Abs(v[i]) <= m

\* np.sum(v ** 2) in units of 1 / Scale^2
SumSquares(v) == SumSeq([i \in 1..Len(v) |-> v[i] * v[i]])

(***************************************************************************)
(* EmbeddingNetwork: a matrix is the sequence of its rows; forward and     *)
(* backward work on the single row of their 1 x n operands.                *)
(***************************************************************************)
\* the width of the first and second hidden layer (128 and 64 in the program)
Hidden1 == 2

Hidden2 == 2

Rows(M) == Len(M)

Cols(M) == IF Len(M) = 0 THEN 0 ELSE Len(M[1])

Shape(M) == <<Rows(M), Cols(M)>>

\* x @ W for a row x
VecMat(x, W) ==
    Arr([j \in 1..Cols(W) |->
            RoundDiv(SumSeq([k \in 1..Len(x) |-> x[k] * W[k][j]]), Scale)])

\* x @ W.T for a row x
VecMatT(x, W) ==
    Arr([i \in 1..Rows(W) |->
            RoundDiv(SumSeq([j \in 1..Len(x) |-> x[j] * W[i][j]]), Scale)])

\* a.T @ d for rows a and d: the outer product
Outer(a, d) ==
    Arr([i \in 1..Len(a) |-> Arr([j \in 1..Len(d) |-> RoundDiv(a[i] * d[j], Scale)])])

\* numpy broadcasting of a 1 x c row against a 1 x cb bias
BroadcastOk(c, cb) == cb = c \/ cb = 1 \/ c = 1

AddBias(p, b) ==
    Arr([j \in 1..Max2(Len(p), Len(b)) |->
            (IF Len(p) = 1 THEN p[1] ELSE p[j]) + (IF Len(b) = 1 THEN b[1] ELSE b[j])])

\* np.maximum(0, x)
_relu(x) == Arr([i \in 1..Len(x) |-> Max2(0, x[i])])

\* (x > 0).astype(float)
_relu_derivative(x) == Arr([i \in 1..Len(x) |-> IF x[i] > 0 THEN 1 ELSE 0])

\* the largest size a component is scaled to before the norm is taken, so that
\* the sum of squares of embedding_dim components stays below 2^31
NormCap == 8 * Scale

\* variant: Z3 returned as it is
NoNormalize(z) == z

\* Z3 / np.maximum(np.linalg.norm(Z3), 1e-8): a nonzero fixed-point Z3 has a norm
\* of at least 1 / Scale, far above the floor; the zero vector is divided by the
\* floor and stays zero.  The direction of Z3 is taken at full resolution.
L2Normalize(z) ==
    IF MaxAbs(z) = 0 THEN z
    ELSE LET m  == MaxAbs(z)
             zz == IF m <= NormCap
                   THEN Arr([i \in 1..Len(z) |-> z[i] * (NormCap \div m)])
                   ELSE Arr([i \in 1..Len(z) |-> RoundDiv(z[i], (m \div NormCap) + 1)])
             norms == ISqrtNear(SumSquares(zz))
         IN  Arr([i \in 1..Len(z) |-> RoundDiv(zz[i] * Scale, norms)])

\* whether forward(X) runs without a numpy shape error on this network
ForwardShapesOk(net, X) ==
    /\ Len(X) = Rows(net.W1)
    /\ BroadcastOk(Cols(net.W1), Cols(net.b1))
    /\ Max2(Cols(net.W1), Cols(net.b1)) = Rows(net.W2)
    /\ BroadcastOk(Cols(net.W2), Cols(net.b2))
    /\ Max2(Cols(net.W2), Cols(net.b2)) = Rows(net.W3)
    /\ BroadcastOk(Cols(net.W3), Cols(net.b3))

\* self.forward(X): the embedding A3 and the cache
forward(net, X) ==
    IF ~ForwardShapesOk(net, X) THEN [err |-> "ValueError"]
    ELSE LET Z1 == AddBias(VecMat(X, net.W1), net.b1[1])
             A1 == _relu(Z1)
             Z2 == AddBias(VecMat(A1, net.W2), net.b2[1])
             A2 == _relu(Z2)
             Z3 == AddBias(VecMat(A2, net.W3), net.b3[1])
             A3 == L2Normalize(Z3)
         IN  [err |-> "none", X |-> X, Z1 |-> Z1, A1 |-> A1, Z2 |-> Z2,
              A2 |-> A2, Z3 |-> Z3, A3 |-> A3]

\* learning_rate * g for a learning rate lr = <<numerator, denominator>>
LrTimes(lr, g) == RoundDiv(lr[1] * g, lr[2])

MatSub(W, lr, dW) ==
    Arr([i \in 1..Rows(W) |->
            Arr([j \in 1..Cols(W) |-> W[i][j] - LrTimes(lr, dW[i][j])])])

Hadamard(a, b) == Arr([i \in 1..Len(a) |-> a[i] * b[i]])

\* self.backward(cache, grad_output, learning_rate): the network after the six
\* in-place updates (m = cache['X'].shape[0] = 1)
backward(net, cache, grad_output, lr) ==
    LET dZ3 == grad_output
        dW3 == Outer(cache.A2, dZ3)
        db3 == dZ3
        dA2 == VecMatT(dZ3, net.W3)
        dZ2 == Hadamard(dA2, _relu_derivative(cache.Z2))
        dW2 == Outer(cache.A1, dZ2)
        db2 == dZ2
        dA1 == VecMatT(dZ2, net.W2)
        dZ1 == Hadamard(dA1, _relu_derivative(cache.Z1))
        dW1 == Outer(cache.X, dZ1)
        db1 == dZ1
    IN  [net EXCEPT !.W3 = MatSub(net.W3, lr, dW3),
                    !.b3 = MatSub(net.b3, lr, <<db3>>),
                    !.W2 = MatSub(net.W2, lr, dW2),
                    !.b2 = MatSub(net.b2, lr, <<db2>>),
                    !.W1 = MatSub(net.W1, lr, dW1),
                    !.b1 = MatSub(net.b1, lr, <<db1>>)]

\* the input row of forward: the encoded name in fixed point
EncodedRow(net, field_name) ==
    LET f == _encode_field_name(net, field_name)
    IN  Arr([i \in 1..Len(f) |-> ToFixed(f[i])])

\* variant: an embedding is refused until the network is marked trained
TrainedOnlyEmbedding(net, field_name) ==
    LET out == forward(net, EncodedRow(net, field_name))
    IN  IF ~net.trained THEN [err |-> "NotTrained"]
        ELSE IF out.err # "none" THEN [err |-> out.err]
        ELSE [err |-> "none", value |-> out.A3]

\* self.get_embedding(field_name): embedding.flatten(), or the error forward raised
get_embedding(net, field_name) ==
    LET out == forward(net, EncodedRow(net, field_name))
    IN  IF out.err # "none" THEN [err |-> out.err]
        ELSE [err |-> "none", value |-> out.A3]

Dot(a, b) == SumSeq([i \in 1..Len(a) |-> a[i] * b[i]])

\* variant: similarity + 1 without the division by 2
RescaleNoHalf(cos) == <<cos + Scale, Scale>>

\* (similarity + 1) / 2 as the fraction <<numerator, denominator>>
Rescale(cos) == <<cos + Scale, 2 * Scale>>

\* np.dot(emb1, emb2) / (np.linalg.norm(emb1) * np.linalg.norm(emb2) + 1e-8): the
\* quotient is rounded down and the 1e-8 is one unit of the denominator, so that
\* as in the code it is below 1 whenever the dot product does not exceed the
\* product of the norms
Cosine(emb1, emb2) ==
    (Dot(emb1, emb2) * Scale)
        \div (ISqrtUp(SumSquares(emb1)) * ISqrtUp(SumSquares(emb2)) + 1)

\* NeuralFieldEmbedding.calculate_similarity(field1, field2)
nn_calculate_similarity(net, field1, field2) ==
    LET e1 == get_embedding(net, field1)
        e2 == get_embedding(net, field2)
    IN  IF e1.err # "none" THEN [err |-> e1.err]
        ELSE IF e2.err # "none" THEN [err |-> e2.err]
        ELSE IF Len(e1.value) # Len(e2.value) THEN [err |-> "ValueError"]
        ELSE [err |-> "none", value |-> Rescale(Cosine(e1.value, e2.value))]

(***************************************************************************)
(* Construction: NeuralFieldEmbedding.__init__ and the pretrained          *)
(* assignment of create_pretrained_model.py.                               *)
(***************************************************************************)
\* how many outcomes of np.random.randn the constructor is checked with
NSeeds == 2

\* NeuralFieldEmbedding(input_dim=100, embedding_dim=32)
DefaultInputDim == 100

DefaultEmbeddingDim == 32

\* np.random.seed(42)
PretrainedSeed == 42

\* draws of a standard normal variable, in fixed point
RandnSamples == <<-1300, 400, 900, 1100, -700, 100, 1700, -400, 800, -1000, 200, 600, -300>>

\* entry (i, j) of the np.random.randn(rows, cols) drawn for a layer under a seed
Randn(seed, layer, i, j) ==
    RandnSamples[((seed * 5 + layer * 3 + i * 7 + j * 4) % Len(RandnSamples)) + 1]

\* np.random.randn(rows, cols) * std
RandnMatrix(seed, layer, rows, cols, std) ==
    Arr([i \in 1..rows |->
            Arr([j \in 1..cols |-> RoundDiv(Randn(seed, layer, i, j) * std, Scale)])])

\* np.zeros((1, cols))
Zeros(cols) == <<Arr([j \in 1..cols |-> 0])>>

\* np.sqrt(2.0 / fan_in)
HeStd(fan_in) == ISqrtNear((2 * Scale * Scale) \div fan_in)

\* NeuralFieldEmbedding(input_dim, embedding_dim) under one outcome of randn
__init__(input_dim, embedding_dim, seed) ==
    [kind          |-> "net",
     input_dim     |-> input_dim,
     embedding_dim |-> embedding_dim,
     W1 |-> RandnMatrix(seed, 1, input_dim, Hidden1, HeStd(input_dim)),
     b1 |-> Zeros(Hidden1),
     W2 |-> RandnMatrix(seed, 2, Hidden1, Hidden2, HeStd(Hidden1)),
     b2 |-> Zeros(Hidden2),
     W3 |-> RandnMatrix(seed, 3, Hidden2, embedding_dim, HeStd(Hidden2)),
     b3 |-> Zeros(embedding_dim),
     char_vocab |-> _build_char_vocab,
     trained    |-> FALSE]

\* the assignments of create_pretrained_model: randn * 0.1 under seed 42
PretrainedStd == Scale \div 10

create_pretrained_model(net) ==
    [net EXCEPT
        !.W1 = RandnMatrix(PretrainedSeed, 1, DefaultInputDim, Hidden1, PretrainedStd),
        !.b1 = Zeros(Hidden1),
        !.W2 = RandnMatrix(PretrainedSeed, 2, Hidden1, Hidden2, PretrainedStd),
        !.b2 = Zeros(Hidden2),
        !.W3 = RandnMatrix(PretrainedSeed, 3, Hidden2, DefaultEmbeddingDim, PretrainedStd),
        !.b3 = Zeros(DefaultEmbeddingDim),
        !.trained = TRUE]

\* NetworkConfig against the arrays: W1 is input_dim x hidden1, W2 is hidden1 x
\* hidden2, W3 is hidden2 x embedding_dim, each bias a row of its layer's width
ShapesConsistent(net) ==
    /\ Shape(net.W1) = <<net.input_dim, Hidden1>>
    /\ Shape(net.b1) = <<1, Hidden1>>
    /\ Shape(net.W2) = <<Hidden1, Hidden2>>
    /\ Shape(net.b2) = <<1, Hidden2>>
    /\ Shape(net.W3) = <<Hidden2, net.embedding_dim>>
    /\ Shape(net.b3) = <<1, net.embedding_dim>>

(***************************************************************************)
(* ModelStore: save_model and load_model.  The pickled dict is a record of *)
(* the keys it holds.                                                      *)
(***************************************************************************)
KeyOrder == <<"W1", "b1", "W2", "b2", "W3", "b3",
              "input_dim", "embedding_dim", "char_vocab", "trained">>

AllKeys == {KeyOrder[i] : i \in 1..Len(KeyOrder)}

\* variant: a dict that records trained as False whatever the network holds
ArtifactOmitsTrained(net) ==
    [kind |-> "artifact", keys |-> AllKeys,
     W1 |-> net.W1, b1 |-> net.b1, W2 |-> net.W2, b2 |-> net.b2,
     W3 |-> net.W3, b3 |-> net.b3,
     input_dim |-> net.input_dim, embedding_dim |-> net.embedding_dim,
     char_vocab |-> net.char_vocab, trained |-> FALSE]

\* the model_data dict of save_model
ArtifactOf(net) ==
    [kind |-> "artifact", keys |-> AllKeys,
     W1 |-> net.W1, b1 |-> net.b1, W2 |-> net.W2, b2 |-> net.b2,
     W3 |-> net.W3, b3 |-> net.b3,
     input_dim |-> net.input_dim, embedding_dim |-> net.embedding_dim,
     char_vocab |-> net.char_vocab, trained |-> net.trained]

\* the position in KeyOrder of the first key the artifact lacks (11 when none)
FirstMissing(art) ==
    CHOOSE n \in 1..(Len(KeyOrder) + 1) :
        /\ \A i \in 1..(n - 1) : KeyOrder[i] \in art.keys
        /\ n <= Len(KeyOrder) => KeyOrder[n] \notin art.keys

\* self.load_model(filepath) on an opened artifact: the ten assignments in
\* order, stopped by the KeyError of the first missing key
load_model(net, art) ==
    LET n == FirstMissing(art)
        assigned == {KeyOrder[i] : i \in 1..(n - 1)}
    IN  [net |-> [k \in DOMAIN net |-> IF k \in assigned THEN art[k] ELSE net[k]],
         err |-> IF n <= Len(KeyOrder) THEN "KeyError" ELSE "none"]

(***************************************************************************)
(* Artifacts that no save_model of this program wrote.                     *)
(***************************************************************************)
BaseArtifact ==
    ArtifactOf(create_pretrained_model(__init__(DefaultInputDim, DefaultEmbeddingDim, 1)))

ExternalArtifacts ==
    { [BaseArtifact EXCEPT !.keys = @ \ {"trained"}],
      [BaseArtifact EXCEPT !.keys = @ \ {"W2"}],
      [BaseArtifact EXCEPT !.W1 = SubSeq(@, 1, DefaultInputDim - 1)],
      [BaseArtifact EXCEPT !.embedding_dim = DefaultEmbeddingDim \div 2] }

(***************************************************************************)
(* Names used by the training sets and the queries.                        *)
(***************************************************************************)
N_empty == <<>>

N_at == <<"@">>

N_ssn == <<"s","s","n">>

N_SSN == <<"S","S","N">>

N_tax_id == <<"t","a","x","_","i","d">>

N_dob == <<"d","o","b">>

N_bd == <<"b","d">>

N_birthDate == <<"b","i","r","t","h","D","a","t","e">>

N_price == <<"p","r","i","c","e">>

N_url == <<"u","r","l">>

N_Ssn == <<"S","s","n">>

N_taxId == <<"t","a","x","I","d">>

N_ssn_x == <<"s","s","n","_","x">>

N_ssn_1 == <<"s","s","n","-","1">>

N_birth_date == <<"b","i","r","t","h","_","d","a","t","e">>

N_dob_x == <<"d","o","b","_","x">>

N_firstName == <<"f","i","r","s","t","N","a","m","e">>

N_first_name == <<"f","i","r","s","t","_","n","a","m","e">>

N_accountNumber == <<"a","c","c","o","u","n","t","N","u","m","b","e","r">>

N_social_security_number ==
    <<"s","o","c","i","a","l","_","s","e","c","u","r","i","t","y","_",
      "n","u","m","b","e","r">>

N_padded_ab == <<" ","a","b"," ">>

N_AxBx == <<"A","x","B","x">>

N_T_ssn == <<"T",".","s","s","n">>

N_T_url == <<"T",".","u","r","l">>

N_foo_bar == <<"f","o","o","_","b","a","r">>

N_foo_dash_bar == <<"f","o","o","-","b","a","r">>

N_fooBar == <<"f","o","o","B","a","r">>

N_ss_nn == <<"s","s","_","n","n">>

Probes == {N_empty, N_at, N_ssn, N_SSN, N_dob, N_bd, N_birthDate}

\* the (similar_pairs, dissimilar_pairs) a training call is given
TrainSets ==
    { [similar |-> << <<N_dob, N_birthDate>> >>,
       dissimilar |-> << <<N_ssn, N_price>> >>],
      [similar |-> << <<N_ssn, N_tax_id>>, <<N_dob, N_bd>> >>,
       dissimilar |-> << <<N_dob, N_url>>, <<N_birthDate, N_price>> >>] }

\* learning_rate: the default 0.01 and the training script's 0.02
DefaultRate == <<1, 100>>

ScriptRate == <<2, 100>>

\* the largest epochs argument given with pairs to train on
MaxEpochs == 2

\* the training script calls model.train_on_pairs once
TrainCallsPerRun == 1

(***************************************************************************)
(* train_on_pairs, one pair at a time.                                     *)
(***************************************************************************)
\* margin = 1.0
Margin == Scale

\* if (epoch + 1) % 20 == 0
LogEvery == 20

VecDiff(a, b) == Arr([i \in 1..Len(a) |-> a[i] - b[i]])

VecScale(k, v) == Arr([i \in 1..Len(v) |-> k * v[i]])

\* variant: the second cache recomputed on the weights the first call left
BackwardRefreshed(net, cache1, cache2, grad1, lr) ==
    LET net1 == backward(net, cache1, grad1, lr)
    IN  backward(net1, forward(net1, cache2.X), VecScale(-1, grad1), lr)

\* the two backward calls of one pair, the second on the weights the first left
BackwardBoth(net, cache1, cache2, grad1, lr) ==
    backward(backward(net, cache1, grad1, lr), cache2, VecScale(-1, grad1), lr)

\* variant: the pairs of a list taken from its end
PairAtReversed(pairs, idx) == pairs[Len(pairs) + 1 - idx]

\* for field1, field2 in pairs: the pair of iteration idx
PairAt(pairs, idx) == pairs[idx]

\* the body of the loop over similar_pairs
SimilarStep(net, pair, lr) ==
    LET cache1 == forward(net, EncodedRow(net, pair[1]))
        cache2 == forward(net, EncodedRow(net, pair[2]))
    IN  IF cache1.err # "none" \/ cache2.err # "none"
        THEN [err |-> "ValueError", net |-> net, loss |-> 0, calls |-> 0]
        ELSE [err |-> "none",
              net |-> BackwardBoth(net, cache1, cache2,
                                   VecScale(2, VecDiff(cache1.A3, cache2.A3)), lr),
              loss |-> SumSquares(VecDiff(cache1.A3, cache2.A3)),
              calls |-> 2]

\* grad_factor * diff with grad_factor = -2 * (margin - distance) / (distance + 1e-8);
\* diff is zero throughout when distance is
GradDissimilar(diff, distance) ==
    IF distance = 0 THEN diff
    ELSE LET grad_factor == -((2 * (Margin - distance) * Scale) \div distance)
         IN  Arr([i \in 1..Len(diff) |-> RoundDiv(grad_factor * diff[i], Scale)])

\* variant: the dissimilar pair is trained on whatever its distance
DissimilarStepNoMargin(net, pair, lr) ==
    LET cache1 == forward(net, EncodedRow(net, pair[1]))
        cache2 == forward(net, EncodedRow(net, pair[2]))
    IN  IF cache1.err # "none" \/ cache2.err # "none"
        THEN [err |-> "ValueError", net |-> net, loss |-> 0, calls |-> 0]
        ELSE LET diff == VecDiff(cache1.A3, cache2.A3)
                 sq   == SumSquares(diff)
             IN  [err |-> "none",
                  net |-> BackwardBoth(net, cache1, cache2,
                                       GradDissimilar(diff, ISqrtNear(sq)), lr),
                  loss |-> (Margin - ISqrtNear(sq)) * (Margin - ISqrtNear(sq)),
                  calls |-> 2]

\* the body of the loop over dissimilar_pairs
DissimilarStep(net, pair, lr) ==
    LET cache1 == forward(net, EncodedRow(net, pair[1]))
        cache2 == forward(net, EncodedRow(net, pair[2]))
    IN  IF cache1.err # "none" \/ cache2.err # "none"
        THEN [err |-> "ValueError", net |-> net, loss |-> 0, calls |-> 0]
        ELSE LET diff == VecDiff(cache1.A3, cache2.A3)
                 sq   == SumSquares(diff)
             IN  IF sq < Margin * Margin
                 THEN [err |-> "none",
                       net |-> BackwardBoth(net, cache1, cache2,
                                            GradDissimilar(diff, ISqrtNear(sq)), lr),
                       loss |-> (Margin - ISqrtNear(sq)) * (Margin - ISqrtNear(sq)),
                       calls |-> 2]
                 ELSE [err |-> "none", net |-> net, loss |-> 0, calls |-> 0]

(***************************************************************************)
(* FieldMatcherML: the lexical scorer of field_matcher_ml.py.              *)
(***************************************************************************)
DigitChars == <<"0","1","2","3","4","5","6","7","8","9">>

IsDigit(c) == \E i \in 1..Len(DigitChars) : DigitChars[i] = c

\* \w of the regular expressions
IsWord(c) == IsLower(c) \/ IsUpper(c) \/ IsDigit(c) \/ c = "_"

\* \s
IsSpace(c) == c = " "

\* the class [_\-\s]
IsSeparator(c) == c = "_" \/ c = "-" \/ IsSpace(c)

IsNotSeparator(c) == ~IsSeparator(c)

\* how many characters from position p on are in the class
RunLen(s, p, In(_)) == Cardinality({q \in p..Len(s) : \A r \in p..q : In(s[r])})

\* the elements of a set of numbers in increasing order
Ascending(S) ==
    [k \in 1..Cardinality(S) |-> CHOOSE x \in S : Cardinality({y \in S : y < x}) = k - 1]

\* the maximal runs of characters of the class, left to right
Runs(s, In(_)) ==
    LET starts == Ascending({p \in 1..Len(s) : In(s[p]) /\ (p = 1 \/ ~In(s[p - 1]))})
    IN  Arr([k \in 1..Len(starts) |->
                SubSeq(s, starts[k], starts[k] + RunLen(s, starts[k], In) - 1)])

\* re.split(r'[_\-\s]+', s): the pieces between separator runs, with the empty
\* piece before a leading and after a trailing separator run
SplitSeparators(s) ==
    (IF Len(s) = 0 \/ IsSeparator(s[1]) THEN << <<>> >> ELSE <<>>)
        \o Runs(s, IsNotSeparator)
        \o (IF Len(s) > 0 /\ IsSeparator(s[Len(s)]) THEN << <<>> >> ELSE <<>>)

\* \b before position q (q = Len(s) + 1 is the end of the string)
WordBoundary(s, q) ==
    (q - 1 >= 1 /\ q - 1 <= Len(s) /\ IsWord(s[q - 1]))
        # (q >= 1 /\ q <= Len(s) /\ IsWord(s[q]))

\* the lookahead (?=[A-Z][a-z]|\b) before position q
CamelLookahead(s, q) ==
    \/ q + 1 <= Len(s) /\ IsUpper(s[q]) /\ IsLower(s[q + 1])
    \/ WordBoundary(s, q)

\* the length of the match of [A-Z]?[a-z]+|[A-Z]+(?=[A-Z][a-z]|\b) at position
\* p, 0 when there is none
CamelMatchLen(s, p) ==
    LET u == IF IsUpper(s[p]) THEN 1 ELSE 0
        l == RunLen(s, p + u, IsLower)
        cands == {n \in 1..RunLen(s, p, IsUpper) : CamelLookahead(s, p + n)}
    IN  IF l >= 1 THEN u + l
        ELSE IF cands # {} THEN CHOOSE n \in cands : \A k \in cands : k <= n
        ELSE 0

RECURSIVE CamelFrom(_, _)
\* re.findall of the camelCase pattern from position pos on: leftmost matches,
\* each search resuming after the previous match
CamelFrom(s, pos) ==
    LET starts == {p \in pos..Len(s) : CamelMatchLen(s, p) > 0}
    IN  IF starts = {} THEN <<>>
        ELSE LET p == CHOOSE x \in starts : \A y \in starts : x <= y
                 m == CamelMatchLen(s, p)
             IN  <<SubSeq(s, p, p + m - 1)>> \o CamelFrom(s, p + m)

camel_tokens(s) == CamelFrom(s, 1)

\* [t for t in tokens if t and len(t) > 1]
LongTokens(tokens) == SelectSeq(tokens, LAMBDA t : Len(t) > 1)

SeqToSet(q) == {q[i] : i \in 1..Len(q)}

\* str.strip()
Strip(s) ==
    LET keep == {i \in 1..Len(s) : ~IsSpace(s[i])}
    IN  IF keep = {} THEN <<>>
        ELSE SubSeq(s, CHOOSE i \in keep : \A j \in keep : i <= j,
                       CHOOSE i \in keep : \A j \in keep : j <= i)

\* FieldMatcherML.is_acronym_match(short_field, long_field)
is_acronym_match(short_field, long_field) ==
    LET short   == Strip(Lower(short_field))
        camel   == camel_tokens(long_field)
        tokens  == LongTokens(IF Len(camel) > 0 THEN camel
                              ELSE SplitSeparators(long_field))
        acronym == [k \in 1..Len(tokens) |-> LowerChar(tokens[k][1])]
    IN  IF Len(tokens) = 0 \/ Len(short) < 2 THEN FALSE
        ELSE short = acronym

\* re.sub('([a-z])([A-Z])', r'\1 \2', s): a space between a lower-case letter and
\* the upper-case letter after it
SplitCamel(s) ==
    LET B == {i \in 1..(Len(s) - 1) : IsLower(s[i]) /\ IsUpper(s[i + 1])}
        at(i) == i + Cardinality({b \in B : b < i})
    IN  Arr([j \in 1..(Len(s) + Cardinality(B)) |->
                IF \E i \in 1..Len(s) : at(i) = j
                THEN s[CHOOSE i \in 1..Len(s) : at(i) = j]
                ELSE " "])

\* str.replace(old, new) for single characters
Replace(s, old, new) == Arr([i \in 1..Len(s) |-> IF s[i] = old THEN new ELSE s[i]])

\* FieldMatcherML.preprocess_field_name(field_name)
preprocess_field_name(field_name) ==
    Arr(Lower(Replace(Replace(SplitCamel(field_name), "_", " "), "-", " ")))

RECURSIVE LevRowDoubleSubstitution(_, _, _, _)
\* variant: replacing a character costs a deletion and an insertion
LevRowDoubleSubstitution(previous_row, c1, s2, current_row) ==
    IF Len(current_row) = Len(s2) + 1 THEN current_row
    ELSE LET j == Len(current_row)
             insertions    == previous_row[j + 1] + 1
             deletions     == current_row[j] + 1
             substitutions == previous_row[j] + (IF c1 # s2[j] THEN 2 ELSE 0)
         IN  LevRowDoubleSubstitution(previous_row, c1, s2,
                    Append(current_row, Min2(insertions, Min2(deletions, substitutions))))

RECURSIVE LevRow(_, _, _, _)
\* the inner loop: current_row grown by one entry per character of s2
LevRow(previous_row, c1, s2, current_row) ==
    IF Len(current_row) = Len(s2) + 1 THEN current_row
    ELSE LET j == Len(current_row)
             insertions    == previous_row[j + 1] + 1
             deletions     == current_row[j] + 1
             substitutions == previous_row[j] + (IF c1 # s2[j] THEN 1 ELSE 0)
         IN  LevRow(previous_row, c1, s2,
                    Append(current_row, Min2(insertions, Min2(deletions, substitutions))))

RECURSIVE LevRows(_, _, _, _)
\* the outer loop: previous_row after the characters i.. of s1
LevRows(s1, s2, i, previous_row) ==
    IF i > Len(s1) THEN previous_row
    ELSE Evaluated(LevRow(previous_row, s1[i], s2, <<i>>),
                   LAMBDA current_row : LevRows(s1, s2, i + 1, current_row))

\* levenshtein_distance(s1, s2)
levenshtein_distance(s1, s2) ==
    LET long  == IF Len(s1) < Len(s2) THEN s2 ELSE s1
        short == IF Len(s1) < Len(s2) THEN s1 ELSE s2
    IN  IF Len(short) = 0 THEN Len(long)
        ELSE LevRows(long, short, 1, Arr([j \in 1..(Len(short) + 1) |-> j - 1]))[Len(short) + 1]

\* variant: a table holding the ssn and dob categories only
IdentifierCategoriesOnly ==
    { [base |-> N_ssn,
       variations |-> {N_social_security_number,
                       <<"s","o","c","i","a","l","S","e","c","u","r","i","t","y","N","u","m","b","e","r">>,
                       N_taxId, N_tax_id}],
      [base |-> N_dob,
       variations |-> {<<"d","a","t","e","O","f","B","i","r","t","h">>,
                       <<"d","a","t","e","_","o","f","_","b","i","r","t","h">>,
                       N_birthDate, N_birth_date}] }

\* self.demographic_variations
demographic_variations ==
    { [base |-> <<"s","s","n">>,
       variations |-> {<<"s","o","c","i","a","l","_","s","e","c","u","r","i","t","y","_","n","u","m","b","e","r">>,
                       <<"s","o","c","i","a","l","S","e","c","u","r","i","t","y","N","u","m","b","e","r">>,
                       <<"t","a","x","I","d">>,
                       <<"t","a","x","_","i","d">>}],
      [base |-> <<"d","o","b">>,
       variations |-> {<<"d","a","t","e","O","f","B","i","r","t","h">>,
                       <<"d","a","t","e","_","o","f","_","b","i","r","t","h">>,
                       <<"b","i","r","t","h","D","a","t","e">>,
                       <<"b","i","r","t","h","_","d","a","t","e">>}],
      [base |-> <<"f","i","r","s","t","N","a","m","e">>,
       variations |-> {<<"f","i","r","s","t","_","n","a","m","e">>,
                       <<"f","n","a","m","e">>,
                       <<"g","i","v","e","n","N","a","m","e">>,
                       <<"g","i","v","e","n","_","n","a","m","e">>}],
      [base |-> <<"l","a","s","t","N","a","m","e">>,
       variations |-> {<<"l","a","s","t","_","n","a","m","e">>,
                       <<"l","n","a","m","e">>,
                       <<"s","u","r","n","a","m","e">>,
                       <<"f","a","m","i","l","y","N","a","m","e">>,
                       <<"f","a","m","i","l","y","_","n","a","m","e">>}],
      [base |-> <<"e","m","a","i","l">>,
       variations |-> {<<"e","m","a","i","l","A","d","d","r","e","s","s">>,
                       <<"e","m","a","i","l","_","a","d","d","r","e","s","s">>,
                       <<"e","M","a","i","l">>,
                       <<"e","_","m","a","i","l">>}],
      [base |-> <<"p","h","o","n","e">>,
       variations |-> {<<"p","h","o","n","e","N","u","m","b","e","r">>,
                       <<"p","h","o","n","e","_","n","u","m","b","e","r">>,
                       <<"t","e","l","e","p","h","o","n","e">>,
                       <<"m","o","b","i","l","e","N","u","m","b","e","r">>,
                       <<"m","o","b","i","l","e","_","n","u","m","b","e","r">>}],
      [base |-> <<"a","d","d","r","e","s","s">>,
       variations |-> {<<"s","t","r","e","e","t","A","d","d","r","e","s","s">>,
                       <<"s","t","r","e","e","t","_","a","d","d","r","e","s","s">>,
                       <<"a","d","d","r","e","s","s","L","i","n","e","1">>,
                       <<"a","d","d","r","e","s","s","_","l","i","n","e","_","1">>}],
      [base |-> <<"z","i","p","C","o","d","e">>,
       variations |-> {<<"z","i","p","_","c","o","d","e">>,
                       <<"p","o","s","t","a","l","C","o","d","e">>,
                       <<"p","o","s","t","a","l","_","c","o","d","e">>,
                       <<"p","o","s","t","c","o","d","e">>}],
      [base |-> <<"c","i","t","y">>,
       variations |-> {<<"c","i","t","y","N","a","m","e">>,
                       <<"c","i","t","y","_","n","a","m","e">>,
                       <<"m","u","n","i","c","i","p","a","l","i","t","y">>}],
      [base |-> <<"s","t","a","t","e">>,
       variations |-> {<<"s","t","a","t","e","C","o","d","e">>,
                       <<"s","t","a","t","e","_","c","o","d","e">>,
                       <<"p","r","o","v","i","n","c","e">>,
                       <<"r","e","g","i","o","n">>}],
      [base |-> <<"a","c","c","o","u","n","t","N","u","m","b","e","r">>,
       variations |-> {<<"a","c","c","o","u","n","t","_","n","u","m","b","e","r">>,
                       <<"a","c","c","o","u","n","t","N","o">>,
                       <<"a","c","c","o","u","n","t","_","n","o">>,
                       <<"a","c","c","t","N","u","m">>}],
      [base |-> <<"c","a","r","d","N","u","m","b","e","r">>,
       variations |-> {<<"c","a","r","d","_","n","u","m","b","e","r">>,
                       <<"c","r","e","d","i","t","C","a","r","d","N","u","m","b","e","r">>,
                       <<"c","r","e","d","i","t","_","c","a","r","d","_","n","u","m","b","e","r">>,
                       <<"p","a","n","N","u","m","b","e","r">>,
                       <<"p","a","n","_","n","u","m","b","e","r">>}] }

\* s.split('.')[-1] if '.' in s else s
StripTablePrefix(s) ==
    LET dots == {i \in 1..Len(s) : s[i] = "."}
    IN  IF dots = {} THEN s
        ELSE SubSeq(s, (CHOOSE i \in dots : \A j \in dots : j <= i) + 1, Len(s))

\* s.lower().replace('_', '').replace('-', '')
LookupKey(s) == SelectSeq(Lower(s), LAMBDA c : c # "_" /\ c # "-")

\* both names are the base or a variation of one category of the table
SameCategory(source_lower, target_lower) ==
    \E cat \in demographic_variations :
        LET keys == {LookupKey(cat.base)} \cup {LookupKey(v) : v \in cat.variations}
        IN  source_lower \in keys /\ target_lower \in keys

\* set(re.split(r'[_\-\s]+', s.lower())) updated with re.findall(r'[a-z]+',
\* s.lower()), without the empty and the one-character tokens
OverlapTokens(field) ==
    LET low == Arr(Lower(field))
    IN  {t \in SeqToSet(SplitSeparators(low)) \cup SeqToSet(Runs(low, IsLower)) :
            Len(t) > 1}

\* min(1.0, max(0.0, final_score)) on a fraction with a positive denominator
Clamp(score) ==
    IF score[1] < 0 THEN <<0, 1>>
    ELSE IF score[1] > score[2] THEN <<1, 1>>
    ELSE score

\* 0.6 * lev_similarity + 0.4 * token_overlap
Blend(lev_similarity, token_overlap) ==
    <<6 * lev_similarity[1] * token_overlap[2] + 4 * token_overlap[1] * lev_similarity[2],
      10 * lev_similarity[2] * token_overlap[2]>>

\* variant: the acronym rule tried before the lookup table
AcronymBeforeLookup(source_field, target_field) ==
    LET source_lower == LookupKey(StripTablePrefix(source_field))
        target_lower == LookupKey(StripTablePrefix(target_field))
        shorter == IF Len(source_field) < Len(target_field)
                   THEN source_field ELSE target_field
        longer  == IF Len(source_field) < Len(target_field)
                   THEN target_field ELSE source_field
        source  == preprocess_field_name(source_field)
        target  == preprocess_field_name(target_field)
        max_len == Max2(Len(source), Len(target))
        lev_similarity == IF max_len > 0
                          THEN <<max_len - levenshtein_distance(source, target), max_len>>
                          ELSE <<0, 1>>
        source_tokens == OverlapTokens(source_field)
        target_tokens == OverlapTokens(target_field)
        intersection  == Cardinality(source_tokens \cap target_tokens)
        union         == Cardinality(source_tokens \cup target_tokens)
        token_overlap == IF source_tokens # {} /\ target_tokens # {}
                         THEN <<intersection, union>>
                         ELSE <<0, 1>>
    IN  IF Arr(Lower(source_field)) = Arr(Lower(target_field)) THEN <<1, 1>>
        ELSE IF is_acronym_match(shorter, longer) THEN <<90, 100>>
        ELSE IF SameCategory(source_lower, target_lower) THEN <<95, 100>>
        ELSE Clamp(Blend(lev_similarity, token_overlap))

\* FieldMatcherML.calculate_similarity(source_field, target_field); the score
\* is the fraction <<numerator, denominator>>
calculate_similarity(source_field, target_field) ==
    LET source_lower == LookupKey(StripTablePrefix(source_field))
        target_lower == LookupKey(StripTablePrefix(target_field))
        shorter == IF Len(source_field) < Len(target_field)
                   THEN source_field ELSE target_field
        longer  == IF Len(source_field) < Len(target_field)
                   THEN target_field ELSE source_field
        source  == preprocess_field_name(source_field)
        target  == preprocess_field_name(target_field)
        max_len == Max2(Len(source), Len(target))
        lev_similarity == IF max_len > 0
                          THEN <<max_len - levenshtein_distance(source, target), max_len>>
                          ELSE <<0, 1>>
        source_tokens == OverlapTokens(source_field)
        target_tokens == OverlapTokens(target_field)
        intersection  == Cardinality(source_tokens \cap target_tokens)
        union         == Cardinality(source_tokens \cup target_tokens)
        token_overlap == IF source_tokens # {} /\ target_tokens # {}
                         THEN <<intersection, union>>
                         ELSE <<0, 1>>
    IN  IF Arr(Lower(source_field)) = Arr(Lower(target_field)) THEN <<1, 1>>
        ELSE IF SameCategory(source_lower, target_lower) THEN <<95, 100>>
        ELSE IF is_acronym_match(shorter, longer) THEN <<90, 100>>
        ELSE Clamp(Blend(lev_similarity, token_overlap))

\* variant: a score equal to the threshold is left out
Above(similarity, threshold) ==
    similarity[1] * threshold[2] > threshold[1] * similarity[2]

\* similarity >= threshold on fractions with positive denominators
AtLeast(similarity, threshold) ==
    similarity[1] * threshold[2] >= threshold[1] * similarity[2]

\* round(similarity, 3), in thousandths; a value halfway between two
\* thousandths goes to the even one
Round3(similarity) ==
    LET a == similarity[1] * 1000
        q == a \div similarity[2]
        r == a % similarity[2]
    IN  IF 2 * r < similarity[2] THEN q
        ELSE IF 2 * r > similarity[2] THEN q + 1
        ELSE IF q % 2 = 0 THEN q ELSE q + 1

\* the number of suggestions kept per target
TopN == 5

\* variant: equal keys come out in the reverse of their original order
SortReversingTies(field_matches) ==
    LET Sorted(fm) ==
            LET n == Len(fm)
                Rank(i) == Cardinality({j \in 1..n :
                               \/ fm[j].similarity > fm[i].similarity
                               \/ /\ fm[j].similarity = fm[i].similarity
                                  /\ j > i}) + 1
            IN  Arr([p \in 1..n |-> fm[CHOOSE i \in 1..n : Rank(i) = p]])
    IN  Evaluated(field_matches, Sorted)

\* field_matches.sort(key=lambda x: x["similarity"], reverse=True): the sort is
\* stable, so an entry is preceded by the entries of greater key and by the
\* earlier entries of equal key
SortBySimilarity(field_matches) ==
    LET Sorted(fm) ==
            LET n == Len(fm)
                Rank(i) == Cardinality({j \in 1..n :
                               \/ fm[j].similarity > fm[i].similarity
                               \/ /\ fm[j].similarity = fm[i].similarity
                                  /\ j < i}) + 1
            IN  Arr([p \in 1..n |-> fm[CHOOSE i \in 1..n : Rank(i) = p]])
    IN  Evaluated(field_matches, Sorted)

\* the entries appended to field_matches for one target, in source order
FieldMatches(target, source_fields, threshold) ==
    LET Passes(entry) == AtLeast(entry.similarity, threshold)
        Entries(scored) ==
            Arr([i \in 1..Len(scored) |->
                    [sourceField |-> scored[i].sourceField,
                     similarity  |-> Round3(scored[i].similarity),
                     matchType   |-> IF scored[i].similarity[1] = scored[i].similarity[2]
                                     THEN "exact" ELSE "fuzzy"]])
        Kept(scored) == Evaluated(SelectSeq(scored, Passes), Entries)
    IN  Evaluated(Arr([i \in 1..Len(source_fields) |->
                          [sourceField |-> source_fields[i],
                           similarity  |-> calculate_similarity(target,
                                                                source_fields[i])]]),
                  Kept)

\* FieldMatcherML.find_similar_fields(target_fields, source_fields, threshold)
find_similar_fields(target_fields, source_fields, threshold) ==
    LET Match(target) ==
            LET Entry(field_matches) ==
                    [targetField |-> target,
                     suggestions |-> Take(field_matches, TopN),
                     bestMatch   |-> IF field_matches # <<>>
                                     THEN field_matches[1] ELSE Null]
            IN  Evaluated(SortBySimilarity(FieldMatches(target, source_fields,
                                                        threshold)),
                          Entry)
    IN  Arr([t \in 1..Len(target_fields) |-> Match(target_fields[t])])

\* threshold=0.6, the threshold suggest_mappings passes
MappingThreshold == <<6, 10>>

\* an entry of excel_fields: a string, or a dict with the keys it holds
StrField(name) == [kind |-> "str", value |-> name]

DictField(table, field) ==
    [kind |-> "dict", keys |-> {"tableName", "fieldName"},
     tableName |-> table, fieldName |-> field]

\* f"{field['tableName']}.{field['fieldName']}" for a dict, str(field) otherwise
TargetName(field) ==
    IF field.kind = "dict"
    THEN field.tableName \o <<".">> \o field.fieldName
    ELSE field.value

\* the KeyError of a dict entry that lacks one of the two keys
WellFormed(field) ==
    field.kind = "dict" => {"tableName", "fieldName"} \subseteq field.keys

\* variant: every record with a bestMatch counts as fuzzy
HasMatch(suggestion) == suggestion.bestMatch # Null

\* the branches of the categorisation loop
IsExact(suggestion) ==
    suggestion.bestMatch # Null /\ suggestion.bestMatch.matchType = "exact"

IsFuzzy(suggestion) ==
    suggestion.bestMatch # Null /\ suggestion.bestMatch.matchType # "exact"

IsNoMatch(suggestion) == suggestion.bestMatch = Null

\* FieldMatcherML.suggest_mappings(excel_fields, codebase_fields)
suggest_mappings(excel_fields, codebase_fields) ==
    IF \E i \in 1..Len(excel_fields) : ~WellFormed(excel_fields[i])
    THEN [err |-> "KeyError"]
    ELSE LET target_field_names ==
                 Arr([i \in 1..Len(excel_fields) |-> TargetName(excel_fields[i])])
             Categorised(suggestions) ==
                 LET exact_matches == SelectSeq(suggestions, IsExact)
                     fuzzy_matches == SelectSeq(suggestions, IsFuzzy)
                     no_matches    == SelectSeq(suggestions, IsNoMatch)
                 IN  [err            |-> "none",
                      totalFields    |-> Len(excel_fields),
                      exactMatches   |-> Len(exact_matches),
                      fuzzyMatches   |-> Len(fuzzy_matches),
                      noMatches      |-> Len(no_matches),
                      suggestions    |-> suggestions,
                      exactMatchList |-> exact_matches,
                      fuzzyMatchList |-> fuzzy_matches,
                      noMatchList    |-> no_matches]
         IN  Evaluated(find_similar_fields(target_field_names, codebase_fields,
                                           MappingThreshold),
                       Categorised)

(***************************************************************************)
(* The state machine: a script process that builds, trains and saves a     *)
(* network (model), the model file, and a FieldMatcherML process (matcher).*)
(***************************************************************************)
Quiet == model.kind = "net" /\ ~train.active

\* model = NeuralFieldEmbedding(input_dim=100, embedding_dim=32)
Construct(seed) ==
    /\ model.kind = "null"
    /\ matcher.kind = "null"
    /\ model' = __init__(DefaultInputDim, DefaultEmbeddingDim, seed)
    /\ train' = Idle
    /\ result' = NoResult
    /\ UNCHANGED <<file, matcher, probe>>

\* create_pretrained_model: the weights assigned by hand, trained = True
AssignPretrained ==
    /\ Quiet
    /\ ~model.trained
    /\ model' = create_pretrained_model(model)
    /\ result' = NoResult
    /\ UNCHANGED <<train, file, matcher, probe>>

\* model.train_on_pairs(similar_pairs, dissimilar_pairs, epochs, learning_rate)
\* is entered; an empty range(epochs) goes straight to trained = True
TrainStart(set, epochs, lr) ==
    /\ Quiet
    /\ train.calls < TrainCallsPerRun
    /\ train' = [active |-> TRUE, calls |-> train.calls + 1,
                 similar |-> set.similar, dissimilar |-> set.dissimilar,
                 epochs |-> epochs, lr |-> lr,
                 epoch |-> 0, phase |-> "similar", idx |-> 1,
                 total_loss |-> 0, log |-> <<>>, start |-> model]
    /\ result' = NoResult
    /\ UNCHANGED <<model, file, matcher, probe>>

Abort(err) ==
    /\ train' = [active |-> FALSE, calls |-> train.calls]
    /\ result' = [fn |-> "train_on_pairs", err |-> err]

\* one iteration of the loop over similar_pairs
TrainSimilarPair ==
    /\ train.active
    /\ train.epoch < train.epochs
    /\ train.phase = "similar"
    /\ train.idx <= Len(train.similar)
    /\ LET pair == PairAt(train.similar, train.idx)
           r    == SimilarStep(model, pair, train.lr)
       IN  /\ model' = r.net
           /\ IF r.err = "none"
              THEN /\ train' = [train EXCEPT
                                   !.idx = @ + 1,
                                   !.total_loss = @ + r.loss,
                                   !.log = Append(@, [epoch |-> train.epoch,
                                                      phase |-> "similar",
                                                      pair |-> pair,
                                                      calls |-> r.calls])]
                   /\ result' = NoResult
              ELSE Abort(r.err)
    /\ UNCHANGED <<file, matcher, probe>>

\* the loop over similar_pairs is exhausted
TrainToDissimilar ==
    /\ train.active
    /\ train.epoch < train.epochs
    /\ train.phase = "similar"
    /\ train.idx > Len(train.similar)
    /\ train' = [train EXCEPT !.phase = "dissimilar", !.idx = 1]
    /\ result' = NoResult
    /\ UNCHANGED <<model, file, matcher, probe>>

\* one iteration of the loop over dissimilar_pairs
TrainDissimilarPair ==
    /\ train.active
    /\ train.epoch < train.epochs
    /\ train.phase = "dissimilar"
    /\ train.idx <= Len(train.dissimilar)
    /\ LET pair == PairAt(train.dissimilar, train.idx)
           r    == DissimilarStep(model, pair, train.lr)
       IN  /\ model' = r.net
           /\ IF r.err = "none"
              THEN /\ train' = [train EXCEPT
                                   !.idx = @ + 1,
                                   !.total_loss = @ + r.loss,
                                   !.log = Append(@, [epoch |-> train.epoch,
                                                      phase |-> "dissimilar",
                                                      pair |-> pair,
                                                      calls |-> r.calls])]
                   /\ result' = NoResult
              ELSE Abort(r.err)
    /\ UNCHANGED <<file, matcher, probe>>

\* the end of an epoch: every 20th epoch the average loss is printed
TrainEpochEnd ==
    /\ train.active
    /\ train.epoch < train.epochs
    /\ train.phase = "dissimilar"
    /\ train.idx > Len(train.dissimilar)
    /\ IF (train.epoch + 1) % LogEvery = 0
          /\ Len(train.similar) + Len(train.dissimilar) = 0
       THEN Abort("ZeroDivisionError")
       ELSE /\ train' = [train EXCEPT !.epoch = @ + 1, !.phase = "similar", !.idx = 1,
                                      !.total_loss = 0]
            /\ result' = NoResult
    /\ UNCHANGED <<model, file, matcher, probe>>

\* self.trained = True
TrainFinish ==
    /\ train.active
    /\ train.epoch >= train.epochs
    /\ model' = [model EXCEPT !.trained = TRUE]
    /\ train' = [active |-> FALSE, calls |-> train.calls]
    /\ result' = NoResult
    /\ UNCHANGED <<file, matcher, probe>>

\* variant: a save that also clears the output bias of the network it wrote
SaveModelClearing ==
    /\ Quiet
    /\ file' = [kind |-> "file", origin |-> "save_model",
                data |-> ArtifactOf(model), saved |-> model]
    /\ model' = [model EXCEPT !.b3 = Zeros(model.embedding_dim)]
    /\ result' = NoResult
    /\ UNCHANGED <<train, matcher, probe>>

\* model.save_model(filepath): the file is created or overwritten
SaveModel ==
    /\ Quiet
    /\ file' = [kind |-> "file", origin |-> "save_model",
                data |-> ArtifactOf(model), saved |-> model]
    /\ result' = NoResult
    /\ UNCHANGED <<model, train, matcher, probe>>

\* the script process ends
ScriptExit ==
    /\ Quiet
    /\ model' = Null
    /\ train' = Idle
    /\ result' = NoResult
    /\ UNCHANGED <<file, matcher, probe>>

\* a file from elsewhere is put at the model path
ExternalWrite(art) ==
    /\ model.kind = "null"
    /\ matcher.kind = "null"
    /\ file' = [kind |-> "file", origin |-> "external", data |-> art, saved |-> Null]
    /\ result' = NoResult
    /\ UNCHANGED <<model, train, matcher, probe>>

\* FieldMatcherML(model_path): a default network, replaced field by field by
\* load_model when the file exists; its KeyError leaves no matcher
MatcherInit(seed) ==
    /\ model.kind = "null"
    /\ matcher.kind = "null"
    /\ LET neural_model == __init__(DefaultInputDim, DefaultEmbeddingDim, seed)
       IN  IF file.kind = "file"
           THEN LET r == load_model(neural_model, file.data)
                IN  IF r.err = "none"
                    THEN /\ matcher' = [kind |-> "matcher", neural_model |-> r.net,
                                        model_loaded |-> TRUE]
                         /\ result' = NoResult
                    ELSE /\ matcher' = Null
                         /\ result' = [fn |-> "FieldMatcherML", err |-> r.err,
                                       neural_model |-> r.net]
           ELSE /\ matcher' = [kind |-> "matcher", neural_model |-> neural_model,
                               model_loaded |-> FALSE]
                /\ result' = NoResult
    /\ UNCHANGED <<model, train, file, probe>>

\* the matcher process ends
MatcherExit ==
    /\ matcher.kind = "matcher"
    /\ matcher' = Null
    /\ result' = NoResult
    /\ UNCHANGED <<model, train, file, probe>>

(***************************************************************************)
(* Queries.  Their outcome is kept in result until the next operation.     *)
(***************************************************************************)
Holders == {"model", "matcher"}

Holds(who) == IF who = "model" THEN Quiet ELSE matcher.kind = "matcher"

NetOf(who) == IF who = "model" THEN model ELSE matcher.neural_model

PairProbes ==
    { <<N_ssn, N_SSN>>, <<N_ssn, N_ssn>>, <<N_empty, N_empty>>, <<N_at, N_at>>,
      <<N_dob, N_birthDate>>, <<N_dob, N_bd>>, <<N_ssn, N_dob>>, <<N_empty, N_ssn>> }

\* net.get_embedding(field_name)
GetEmbedding(who, field_name) ==
    /\ Holds(who)
    /\ result.fn = "none"
    /\ LET r == get_embedding(NetOf(who), field_name)
       IN  result' = [fn |-> "get_embedding", who |-> who, args |-> <<field_name>>,
                      out |-> r]
    /\ UNCHANGED <<model, train, file, matcher, probe>>

\* net.calculate_similarity(field1, field2)
NeuralSimilarity(who, pair) ==
    /\ Holds(who)
    /\ result.fn = "none"
    /\ LET r == nn_calculate_similarity(NetOf(who), pair[1], pair[2])
       IN  result' = [fn |-> "nn_calculate_similarity", who |-> who, args |-> pair,
                      out |-> r]
    /\ UNCHANGED <<model, train, file, matcher, probe>>

\* the arguments of the train_on_pairs calls: every training set for 0..MaxEpochs
\* epochs at the default rate and for MaxEpochs epochs at the script's rate, and
\* no pairs at all for one epoch and for the 20 of the first log line, and a
\* pair of blank names for one epoch
NoPairs == [similar |-> <<>>, dissimilar |-> <<>>]

\* one dissimilar pair of names without any vocabulary character
BlankPair == [similar |-> <<>>, dissimilar |-> << <<N_empty, N_at>> >>]

TrainCalls ==
    (TrainSets \X (0..MaxEpochs) \X {DefaultRate})
        \cup (TrainSets \X {MaxEpochs} \X {ScriptRate})
        \cup ({NoPairs} \X {1, LogEvery} \X {DefaultRate})
        \cup ({BlankPair} \X {1} \X {DefaultRate})

\* the pairs the specification names as references for the 0.7 threshold
SimilarReferences ==
    { <<N_firstName, N_first_name>>, <<N_ssn, N_social_security_number>> }

DissimilarReferences == { <<N_firstName, N_accountNumber>> }

\* the pairs the lexical scorer is asked about
MatcherPairs ==
    PairProbes \cup { <<N_ssn, N_tax_id>>, <<N_bd, N_birthDate>>, <<N_dob, N_url>>,
                      <<N_birthDate, N_price>> }
               \cup SimilarReferences \cup DissimilarReferences

\* matcher.calculate_similarity(source_field, target_field)
MatcherSimilarity(pair) ==
    /\ matcher.kind = "matcher"
    /\ result.fn = "none"
    /\ result' = [fn |-> "calculate_similarity", who |-> "matcher", args |-> pair,
                  out |-> [err |-> "none",
                           value |-> calculate_similarity(pair[1], pair[2])]]
    /\ UNCHANGED <<model, train, file, matcher, probe>>

\* threshold: float = 0.7, the default of find_similar_fields
DefaultThreshold == <<7, 10>>

\* the target and source lists of the bulk queries
TargetLists == { <<N_ssn, N_dob>>, <<N_url, N_foo_bar>> }

SourceLists ==
    { <<N_ssn_x, N_taxId, N_price, N_SSN, N_ssn_1, N_tax_id, N_Ssn, N_birthDate>>,
      <<N_dob_x, N_birth_date, N_dob, N_foo_dash_bar, N_fooBar>> }

\* matcher.find_similar_fields(target_fields, source_fields, threshold)
FindSimilarFields(target_fields, source_fields, threshold) ==
    /\ matcher.kind = "matcher"
    /\ result.fn = "none"
    /\ result' = [fn |-> "find_similar_fields", who |-> "matcher",
                  args |-> <<target_fields, source_fields, threshold>>,
                  out |-> find_similar_fields(target_fields, source_fields, threshold)]
    /\ UNCHANGED <<model, train, file, matcher, probe>>

\* the excel_fields and codebase_fields of the mapping requests
ExcelLists ==
    { << DictField(<<"T">>, N_ssn), StrField(N_url), StrField(N_foo_bar) >>,
      << StrField(N_T_ssn), DictField(<<"T">>, N_ssn) >>,
      << StrField(N_dob), [kind |-> "dict", keys |-> {"fieldName"}, fieldName |-> N_ssn] >>,
      << >> }

CodebaseLists ==
    { <<N_SSN, N_tax_id, N_foo_dash_bar, N_fooBar>>, <<N_birth_date, N_price>> }

\* matcher.suggest_mappings(excel_fields, codebase_fields)
SuggestMappings(excel_fields, codebase_fields) ==
    /\ matcher.kind = "matcher"
    /\ result.fn = "none"
    /\ result' = [fn |-> "suggest_mappings", who |-> "matcher",
                  args |-> <<excel_fields, codebase_fields>>,
                  out |-> suggest_mappings(excel_fields, codebase_fields)]
    /\ UNCHANGED <<model, train, file, matcher, probe>>

Init ==
    /\ model = Null
    /\ train = Idle
    /\ file = Null
    /\ matcher = Null
    /\ result = NoResult
    /\ probe = Null

Next ==
    \/ \E seed \in 1..NSeeds : Construct(seed)
    \/ AssignPretrained
    \/ \E call \in TrainCalls : TrainStart(call[1], call[2], call[3])
    \/ TrainSimilarPair
    \/ TrainToDissimilar
    \/ TrainDissimilarPair
    \/ TrainEpochEnd
    \/ TrainFinish
    \/ SaveModel
    \/ ScriptExit
    \/ \E art \in ExternalArtifacts : ExternalWrite(art)
    \/ \E seed \in 1..NSeeds : MatcherInit(seed)
    \/ MatcherExit
    \/ \E who \in Holders, s \in Probes : GetEmbedding(who, s)
    \/ \E who \in Holders, pair \in PairProbes : NeuralSimilarity(who, pair)
    \/ \E pair \in MatcherPairs : MatcherSimilarity(pair)
    \/ \E target_fields \in TargetLists, source_fields \in SourceLists,
          threshold \in {DefaultThreshold, MappingThreshold} :
            FindSimilarFields(target_fields, source_fields, threshold)
    \/ \E excel_fields \in ExcelLists, codebase_fields \in CodebaseLists :
            SuggestMappings(excel_fields, codebase_fields)

Spec == Init /\ [][Next]_vars

(***************************************************************************)
(* SpecEnc: the encoder as a pure function.  Init draws the name and the   *)
(* configured input_dim; Encode applies _encode_field_name.                *)
(***************************************************************************)
EncAlphabet == {"a", "B", " ", "@"}

RECURSIVE NamesUpTo(_, _)
NamesUpTo(alphabet, n) ==
    IF n = 0 THEN {<<>>}
    ELSE LET shorter == NamesUpTo(alphabet, n - 1)
         IN  shorter \cup {Append(s, c) : s \in shorter, c \in alphabet}

\* names around the 50-character limit
LongNames == { Rep("a", NameLimit - 1) \o <<"B">>,
               Rep("a", NameLimit) \o <<"B">>,
               Rep("@", NameLimit) \o <<"a", "B">>,
               Rep("B", NameLimit + 1) \o <<" ">> }

EncNames == NamesUpTo(EncAlphabet, MaxNameLen) \cup LongNames

\* configured input_dim below, at and above the 2V = 80 concatenated entries
EncDims == {1, 40, 79, 80, 81, 100}

EncNet(input_dim) == [input_dim |-> input_dim, char_vocab |-> _build_char_vocab]

InitEnc ==
    /\ model = Null
    /\ train = Idle
    /\ file = Null
    /\ matcher = Null
    /\ result = NoResult
    /\ probe \in [s : EncNames, input_dim : EncDims]

Encode ==
    /\ result.fn = "none"
    /\ result' = [fn |-> "encode",
                  value |-> _encode_field_name(EncNet(probe.input_dim), probe.s)]
    /\ UNCHANGED <<model, train, file, matcher, probe>>

NextEnc == Encode

SpecEnc == InitEnc /\ [][NextEnc]_vars

(***************************************************************************)
(* The lexical scorer and the edit distance as functions of two names.     *)
(***************************************************************************)
LexAlphabet == {"a", "B"}

\* names of the lookup table, with table prefixes, separators, padding and
\* camel case
LexCurated ==
    { N_ssn, N_SSN, N_social_security_number, N_tax_id, N_firstName, N_first_name,
      N_accountNumber, N_url, N_price, N_padded_ab, N_AxBx, N_T_ssn, N_T_url,
      N_foo_bar, N_foo_dash_bar, N_fooBar, N_ss_nn }

LexNames == NamesUpTo(LexAlphabet, MaxNameLen) \cup LexCurated

InitLex ==
    /\ model = Null
    /\ train = Idle
    /\ file = Null
    /\ matcher = Null
    /\ result = NoResult
    /\ probe \in [a : LexNames, b : LexNames]

\* matcher.calculate_similarity(a, b); the scorer reads nothing but its table
Score ==
    /\ result.fn = "none"
    /\ result' = [fn |-> "calculate_similarity", who |-> "matcher",
                  args |-> <<probe.a, probe.b>>,
                  out |-> [err |-> "none",
                           value |-> calculate_similarity(probe.a, probe.b)]]
    /\ UNCHANGED <<model, train, file, matcher, probe>>

\* levenshtein_distance(a, b)
Distance ==
    /\ result.fn = "none"
    /\ result' = [fn |-> "levenshtein_distance", args |-> <<probe.a, probe.b>>,
                  value |-> levenshtein_distance(probe.a, probe.b)]
    /\ UNCHANGED <<model, train, file, matcher, probe>>

NextLex == Score \/ Distance

SpecLex == InitLex /\ [][NextLex]_vars

(***************************************************************************)
(* One network instance used by a caller that runs backward and a caller   *)
(* that runs forward.  backward assigns its six arrays one statement after *)
(* another and forward reads them one after another; probe.concurrent says *)
(* whether the two callers are threads of their own or one thread making   *)
(* one call at a time.                                                     *)
(***************************************************************************)
\* the backward calls of one behaviour
MaxBackwardCalls == 2

\* variant: the updates applied from the input layer to the output layer
AssignInputFirst == <<"W1", "b1", "W2", "b2", "W3", "b3">>

\* the order of the six in-place updates of backward
AssignOrder == <<"W3", "b3", "W2", "b2", "W1", "b1">>

\* the order in which forward reads the six arrays
ReadOrder == <<"W1", "b1", "W2", "b2", "W3", "b3">>

\* the similar pairs the training caller works on and the names embedded
SharedPairs == { <<N_dob, N_birthDate>>, <<N_ssn, N_tax_id>> }

SharedNames == {N_ssn, N_dob}

\* the training caller is between two statements of backward
InBackward == train.active

\* the inference caller is between two reads of forward
InForward == probe.pc > 0 /\ probe.pc < Len(ReadOrder)

InitShared ==
    /\ \E seed \in 1..NSeeds :
          /\ model = __init__(DefaultInputDim, DefaultEmbeddingDim, seed)
          /\ train = [active |-> FALSE, calls |-> 0, pc |-> 0,
                      old |-> model, pending |-> model, versions |-> <<model>>]
    /\ file = Null
    /\ matcher = Null
    /\ result = NoResult
    /\ probe \in [concurrent : BOOLEAN, field : SharedNames, pc : {0}, seen : {<<>>}]

\* backward is entered with the cache and gradient of the first name of a
\* similar pair: the six gradients are computed from the weights as they are
BackwardEnter(pair) ==
    /\ ~InBackward
    /\ train.calls < MaxBackwardCalls
    /\ probe.concurrent \/ ~InForward
    /\ LET cache1 == forward(model, EncodedRow(model, pair[1]))
           cache2 == forward(model, EncodedRow(model, pair[2]))
           grad1  == VecScale(2, VecDiff(cache1.A3, cache2.A3))
       IN  train' = [train EXCEPT !.active = TRUE, !.pc = 0, !.old = model,
                                  !.pending = backward(model, cache1, grad1, DefaultRate)]
    /\ UNCHANGED <<model, file, matcher, result, probe>>

\* the next of the six assignments of backward
BackwardAssign ==
    /\ InBackward
    /\ train.pc < Len(AssignOrder)
    /\ LET name == AssignOrder[train.pc + 1]
       IN  model' = [model EXCEPT ![name] = train.pending[name]]
    /\ train' = [train EXCEPT !.pc = @ + 1]
    /\ UNCHANGED <<file, matcher, result, probe>>

\* backward returns
BackwardReturn ==
    /\ InBackward
    /\ train.pc = Len(AssignOrder)
    /\ train' = [train EXCEPT !.active = FALSE, !.calls = @ + 1,
                              !.versions = Append(@, model)]
    /\ UNCHANGED <<model, file, matcher, result, probe>>

\* forward reads the next array of the instance
ForwardRead ==
    /\ probe.pc < Len(ReadOrder)
    /\ probe.concurrent \/ ~InBackward
    /\ probe' = [probe EXCEPT !.pc = @ + 1,
                              !.seen = Append(@, model[ReadOrder[probe.pc + 1]])]
    /\ UNCHANGED <<model, train, file, matcher, result>>

\* the network made of the arrays forward has read
SeenNet ==
    [model EXCEPT !.W1 = probe.seen[1], !.b1 = probe.seen[2], !.W2 = probe.seen[3],
                  !.b2 = probe.seen[4], !.W3 = probe.seen[5], !.b3 = probe.seen[6]]

\* forward returns the embedding computed from what it read
ForwardReturn ==
    /\ probe.pc = Len(ReadOrder)
    /\ result.fn = "none"
    /\ result' = [fn |-> "forward",
                  out |-> forward(SeenNet, EncodedRow(SeenNet, probe.field)).A3]
    /\ UNCHANGED <<model, train, file, matcher, probe>>

NextShared ==
    \/ \E pair \in SharedPairs : BackwardEnter(pair)
    \/ BackwardAssign
    \/ BackwardReturn
    \/ ForwardRead
    \/ ForwardReturn

SpecShared == InitShared /\ [][NextShared]_vars

(***************************************************************************)
(* Claims about the encoder (SpecEnc).                                     *)
(***************************************************************************)
\* the fractions of v add up to exactly 1
SumsToOne(v) ==
    \E t \in 1..NameLimit :
        /\ \A i \in 1..Len(v) : t % v[i][2] = 0
        /\ SumSeq([i \in 1..Len(v) |-> v[i][1] * (t \div v[i][2])]) = t

AllZero(v) == \A i \in 1..Len(v) : v[i] = <<0, 1>>

\* the characters the encoder counts: those whose lower-case form is one of the
\* vocabulary symbols
Supported(c) == \E i \in 1..Len(VocabChars) : VocabChars[i] = LowerChar(c)

\* C4: the encoding of any name has exactly input_dim entries: the concatenated
\* histograms followed by zeros when they are shorter than input_dim, their
\* first input_dim entries when they are longer.
C4_EncodeLength ==
    result.fn = "encode" =>
        LET h == Histograms(EncNet(probe.input_dim), probe.s)
            v == result.value
        IN  /\ Len(v) = probe.input_dim
            /\ \A i \in 1..Len(v) : v[i] = IF i <= Len(h) THEN h[i] ELSE <<0, 1>>

C4_Witness ==
    /\ result.fn = "encode"
    /\ probe.input_dim = 40
    /\ probe.s = <<"a", "B">>
    /\ Len(result.value) = 40
    /\ result.value[1] = <<1, 2>>

\* C5: encoding is total: every name, the empty one and those without a supported
\* character included, yields a vector of fractions in [0,1], and the vector is
\* all zeros when the name has no supported character.
C5_EncodeTotal ==
    result.fn = "encode" =>
        /\ \A i \in 1..Len(result.value) :
               /\ result.value[i][2] > 0
               /\ 0 <= result.value[i][1]
               /\ result.value[i][1] <= result.value[i][2]
        /\ (\A i \in 1..Len(probe.s) : ~Supported(probe.s[i])) => AllZero(result.value)

C5_Witness ==
    /\ result.fn = "encode"
    /\ probe.s = <<"@", "@">>
    /\ probe.input_dim = 100
    /\ AllZero(result.value)

C7_Vocabulary ==
    /\ DOMAIN _build_char_vocab =
          {"a","b","c","d","e","f","g","h","i","j","k","l","m","n","o","p","q",
           "r","s","t","u","v","w","x","y","z","0","1","2","3","4","5","6","7",
           "8","9","_","-","."," "}
    /\ Cardinality(DOMAIN _build_char_vocab) = 40
    /\ {_build_char_vocab[c] : c \in DOMAIN _build_char_vocab} = 0..39
    /\ result.fn = "encode" =>
        LET v    == result.value
            d    == probe.input_dim
            name == FoldName(probe.s)
        IN  /\ Len(Histograms(EncNet(d), probe.s)) = 80
            /\ \A i \in 1..d : i > 80 => v[i] = <<0, 1>>
            /\ (d >= 40 /\ \E i \in 1..Len(name) : Supported(name[i]))
                   => SumsToOne(SubSeq(v, 1, 40))
            /\ (d >= 80 /\ \E i \in 1..(Len(name) - 1) :
                                Supported(name[i]) /\ Supported(name[i + 1]))
                   => SumsToOne(SubSeq(v, 41, 80))

C7_Witness ==
    /\ result.fn = "encode"
    /\ probe.s = <<" ", "a">>
    /\ probe.input_dim = 100
    /\ result.value[1] = <<1, 2>>
    /\ result.value[40] = <<1, 2>>
    /\ result.value[80] = <<1, 1>>
    /\ result.value[81] = <<0, 1>>

\* C7 as stated: 41 symbols with indices 0..40, histograms of V = 41 entries and
\* 82 concatenated entries before padding.
C7_Original ==
    result.fn = "encode" =>
        /\ Cardinality(DOMAIN _build_char_vocab) = 41
        /\ {_build_char_vocab[c] : c \in DOMAIN _build_char_vocab} = 0..40
        /\ Len(Histograms(EncNet(probe.input_dim), probe.s)) = 82

(***************************************************************************)
(* Claims about similarity scores, embeddings and the model file, checked  *)
(* under Spec.                                                             *)
(***************************************************************************)
SimilarityFns == {"calculate_similarity", "nn_calculate_similarity"}

\* a similarity query returned a score
Scored == result.fn \in SimilarityFns /\ result.out.err = "none"

\* the two names are equal ignoring case
CaseEqual(pair) == Arr(Lower(pair[1])) = Arr(Lower(pair[2]))

\* C1: for a name and any casing of it, FieldMatcherML.calculate_similarity and
\* NeuralFieldEmbedding.calculate_similarity both return exactly 1.0.
C1_CasingScoresOne ==
    (Scored /\ CaseEqual(result.args)) => result.out.value[1] = result.out.value[2]

\* C2: every score returned by FieldMatcherML.calculate_similarity and by
\* NeuralFieldEmbedding.calculate_similarity is in the closed interval [0, 1].
C2_ScoreInUnitInterval ==
    Scored => /\ result.out.value[2] > 0
              /\ 0 <= result.out.value[1]
              /\ result.out.value[1] <= result.out.value[2]

C2_Witness ==
    /\ Scored
    /\ result.fn = "nn_calculate_similarity"
    /\ result.args = <<N_ssn, N_dob>>
    /\ NetOf(result.who).trained
    /\ result.out.value[1] > Scale

\* the rounding of the fixed-point components of an embedding, on its squared norm
NormTol == 6 * Scale

UnitNorm(v) == Abs(SumSquares(v) - Scale * Scale) <= NormTol

Embedded == result.fn = "get_embedding" /\ result.out.err = "none"

\* the Z3 of the forward pass behind the embedding held in result
Z3Of == forward(NetOf(result.who), EncodedRow(NetOf(result.who), result.args[1])).Z3

\* C3 (as amended): an embedding returned by get_embedding has norm 1 when the
\* output Z3 of the third layer is not zero, and is the zero vector when Z3 is
\* zero.
C3_UnitNormOrZero ==
    Embedded => IF MaxAbs(Z3Of) > 0
                THEN UnitNorm(result.out.value)
                ELSE MaxAbs(result.out.value) = 0

C3_Witness ==
    /\ Embedded
    /\ result.args = <<N_ssn>>
    /\ NetOf(result.who).trained
    /\ MaxAbs(Z3Of) > 0
    /\ UnitNorm(result.out.value)

\* C3 as stated: every embedding returned by get_embedding, the one of the
\* empty name included, has norm 1.
C3_Original == Embedded => UnitNorm(result.out.value)

\* a matcher holds a network that load_model filled from a file save_model wrote
LoadedFromSave ==
    /\ matcher.kind = "matcher"
    /\ matcher.model_loaded
    /\ file.kind = "file"
    /\ file.origin = "save_model"

\* C8: after save_model on a network N and load_model into a fresh network M,
\* M holds the ten fields of N and scores every probe pair as N does.
C8_RoundTrip ==
    LoadedFromSave =>
        /\ \A k \in AllKeys : matcher.neural_model[k] = file.saved[k]
        /\ \A pair \in PairProbes :
              nn_calculate_similarity(matcher.neural_model, pair[1], pair[2])
                  = nn_calculate_similarity(file.saved, pair[1], pair[2])

C8_Witness ==
    /\ LoadedFromSave
    /\ file.saved.trained
    /\ file.saved.b3 # Zeros(DefaultEmbeddingDim)
    /\ result.fn = "nn_calculate_similarity"
    /\ result.who = "matcher"

\* the artifact has the ten keys and its arrays have the shapes its dimensions give
ValidArtifact(art) == AllKeys \subseteq art.keys /\ ShapesConsistent(art)

\* C9: load_model never returns successfully with an artifact installed that
\* lacks a field or whose shapes disagree with its input_dim / embedding_dim.
C9_LoadValidates ==
    (matcher.kind = "matcher" /\ matcher.model_loaded) => ValidArtifact(file.data)

\* C10: the weight shapes of every network agree with its configuration, and no
\* forward pass fails on a shape.
C10_ShapesAlwaysConsistent ==
    /\ model.kind = "net" => ShapesConsistent(model)
    /\ matcher.kind = "matcher" => ShapesConsistent(matcher.neural_model)
    /\ result.fn \in {"get_embedding", "nn_calculate_similarity"} => result.out.err = "none"


(***************************************************************************)
(* Claims about training and the frame of the weights, checked under Spec. *)
(***************************************************************************)
\* the six parameter arrays of a network
Weights(net) == <<net.W1, net.b1, net.W2, net.b2, net.W3, net.b3>>

\* the step changes the arrays of a network that exists before and after it
ModelWeightsChange ==
    model.kind = "net" /\ model'.kind = "net" /\ Weights(model') # Weights(model)

MatcherWeightsChange ==
    /\ matcher.kind = "matcher" /\ matcher'.kind = "matcher"
    /\ Weights(matcher'.neural_model) # Weights(matcher.neural_model)

\* the step is an iteration of one of the two pair loops of train_on_pairs
PairStep ==
    /\ train.active
    /\ train.epoch < train.epochs
    /\ train.idx <= Len(IF train.phase = "similar" THEN train.similar
                        ELSE train.dissimilar)
    /\ train'.active => train'.idx = train.idx + 1

\* the step is the assignment of create_pretrained_model
PretrainedStep == Quiet /\ ~model.trained /\ model' = create_pretrained_model(model)

\* the step is FieldMatcherML() finding the file: load_model assigns the six
\* arrays of the network the constructor just built
LoadStep ==
    /\ matcher.kind = "null" /\ matcher'.kind = "matcher"
    /\ matcher'.model_loaded

\* C11 (as amended): the arrays of an existing network change only in a pair
\* iteration of train_on_pairs (its backward calls) or in the pretrained
\* assignment, and load_model replaces all six by the file's; queries and
\* save_model leave them unchanged.
C11_WeightsFrame ==
    [][ /\ ModelWeightsChange => (PairStep \/ PretrainedStep)
        /\ ~MatcherWeightsChange
        /\ LoadStep => Weights(matcher'.neural_model) = Weights(file.data) ]_vars

C11_Witness ==
    /\ train.active
    /\ train.idx > 1
    /\ model.b3 # Zeros(DefaultEmbeddingDim)

\* C11 as stated: the arrays of an existing network change only in the backward
\* calls of training.
C11_Original == [][ ModelWeightsChange => PairStep ]_vars


\* the pairs of one epoch in the order of the two loops
EpochOrder ==
    [k \in 1..(Len(train.similar) + Len(train.dissimilar)) |->
        IF k <= Len(train.similar)
        THEN [phase |-> "similar", pair |-> train.similar[k]]
        ELSE [phase |-> "dissimilar", pair |-> train.dissimilar[k - Len(train.similar)]]]

\* C12: the n-th pair a train_on_pairs call processes is the pair of epoch
\* (n - 1) div L at place (n - 1) mod L of the epoch order, L pairs an epoch:
\* similar pairs in list order, then dissimilar pairs in list order, epoch by
\* epoch.
C12_FixedOrder ==
    train.active =>
        LET L == Len(EpochOrder)
        IN  /\ Len(train.log) <= train.epochs * L
            /\ \A n \in 1..Len(train.log) :
                  /\ train.log[n].epoch = (n - 1) \div L
                  /\ train.log[n].phase = EpochOrder[((n - 1) % L) + 1].phase
                  /\ train.log[n].pair = EpochOrder[((n - 1) % L) + 1].pair

C12_Witness ==
    /\ train.active
    /\ Len(train.similar) = 2
    /\ train.epoch = 1
    /\ train.phase = "dissimilar"
    /\ train.idx = 2
    /\ Len(train.log) = 7


\* the list the running loop iterates over
LoopPairs == IF train.phase = "similar" THEN train.similar ELSE train.dissimilar

\* the two caches of the pair at hand, computed on the weights before the step
Cache1 == forward(model, EncodedRow(model, PairAt(LoopPairs, train.idx)[1]))

Cache2 == forward(model, EncodedRow(model, PairAt(LoopPairs, train.idx)[2]))

Diff == VecDiff(Cache1.A3, Cache2.A3)

\* the pair at hand is trained on: a similar pair, or a dissimilar pair closer
\* than the margin
Updates == train.phase = "similar" \/ SumSquares(Diff) < Margin * Margin

Grad1 == IF train.phase = "similar" THEN VecScale(2, Diff)
         ELSE GradDissimilar(Diff, ISqrtNear(SumSquares(Diff)))

FirstCache1 == forward(train.start, EncodedRow(train.start, train.similar[1][1]))

FirstCache2 == forward(train.start, EncodedRow(train.start, train.similar[1][2]))

FirstGrad1 == VecScale(2, VecDiff(FirstCache1.A3, FirstCache2.A3))

C14_SkipBeyondMargin ==
    [][ (PairStep /\ train.phase = "dissimilar") =>
            /\ ~Updates =>
                  /\ Weights(model') = Weights(model)
                  /\ train'.active
                  /\ train'.total_loss = train.total_loss
                  /\ train'.log[Len(train'.log)].calls = 0
            /\ Weights(model') # Weights(model) => Updates ]_vars

C14_Witness ==
    /\ train.active
    /\ \E n \in 1..Len(train.log) :
          train.log[n].phase = "dissimilar" /\ train.log[n].calls = 0
    /\ \E n \in 1..Len(train.log) :
          train.log[n].phase = "dissimilar" /\ train.log[n].calls = 2


\* C15: train_on_pairs runs its epochs and returns without raising, for any
\* pair lists (both empty included) and any epochs >= 0 (20 and more included).
C15_TrainNeverRaises ==
    result.fn = "train_on_pairs" => result.err = "none"


NetworkQueries == {"get_embedding", "nn_calculate_similarity"}

\* the answer of the query held in result, on a given network
Answer(net) ==
    IF result.fn = "get_embedding"
    THEN get_embedding(net, result.args[1])
    ELSE nn_calculate_similarity(net, result.args[1], result.args[2])

\* C16: the trained flag has no effect on inference: get_embedding and
\* calculate_similarity answer the same whatever the flag, and answer on a
\* network whose flag is False.
C16_TrainedIgnored ==
    result.fn \in NetworkQueries =>
        \A flag \in BOOLEAN :
            result.out = Answer([NetOf(result.who) EXCEPT !.trained = flag])

C16_Witness ==
    /\ result.fn = "nn_calculate_similarity"
    /\ ~NetOf(result.who).trained
    /\ result.out.err = "none"
    /\ result.args[1] # result.args[2]
    /\ result.out.value[1] > 0


\* the bulk query held in result
Ranked == result.fn = "find_similar_fields"

\* the position of a candidate in the source list of the query
SourceIndex(source) == IndexIn(result.args[2], source)

\* the candidates of the query that reach the threshold for a target
Passing(target) ==
    {i \in 1..Len(result.args[2]) :
        AtLeast(calculate_similarity(target, result.args[2][i]), result.args[3])}

\* C17: for each target the suggestions are in descending order of score, are
\* the TopN best of the candidates that reach the threshold, and two
\* suggestions of equal score are in the order of the candidate list.
C17_RankedTopN ==
    Ranked =>
        \A t \in 1..Len(result.out) :
            LET s == result.out[t].suggestions
                passing == Passing(result.out[t].targetField)
                kept == {SourceIndex(s[a].sourceField) : a \in 1..Len(s)}
            IN  /\ Len(s) = Min2(TopN, Cardinality(passing))
                /\ kept \subseteq passing
                /\ \A a, b \in 1..Len(s) :
                      a < b =>
                         /\ s[a].similarity >= s[b].similarity
                         /\ s[a].similarity = s[b].similarity =>
                               SourceIndex(s[a].sourceField) < SourceIndex(s[b].sourceField)
                /\ \A i \in passing \ kept :
                      \A a \in 1..Len(s) :
                         /\ Round3(calculate_similarity(result.out[t].targetField,
                                                        result.args[2][i]))
                               <= s[a].similarity
                         /\ Round3(calculate_similarity(result.out[t].targetField,
                                                        result.args[2][i]))
                               = s[a].similarity
                               => SourceIndex(s[a].sourceField) < i

C17_Witness ==
    /\ Ranked
    /\ \E t \in 1..Len(result.out) :
          LET s == result.out[t].suggestions
          IN  /\ Len(s) = TopN
              /\ Cardinality(Passing(result.out[t].targetField)) > TopN
              /\ \E a, b \in 1..Len(s) :
                    a < b /\ s[a].similarity = s[b].similarity
              /\ \E a, b \in 1..Len(s) :
                    a < b /\ SourceIndex(s[a].sourceField) > SourceIndex(s[b].sourceField)


\* equality of two fractions with positive denominators
FracEq(a, b) == a[1] * b[2] = b[1] * a[2]

\* the lexical scorer answered for a pair that differs beyond case while a
\* model file was loaded
LoadedScore ==
    /\ result.fn = "calculate_similarity"
    /\ matcher.kind = "matcher"
    /\ matcher.model_loaded
    /\ ~CaseEqual(result.args)

\* C18: with model_loaded True the score of a non-identical pair depends on the
\* network's embeddings of the two names (and with model_loaded False it is
\* the lexical formula): where the loaded network scores the pair differently
\* from the lexical formula, the returned score is not the lexical one.
C18_LoadedScoreUsesNetwork ==
    LoadedScore =>
        LET lexical == calculate_similarity(result.args[1], result.args[2])
            network == nn_calculate_similarity(matcher.neural_model,
                                               result.args[1], result.args[2])
        IN  (network.err = "none" /\ ~FracEq(network.value, lexical))
                => ~FracEq(result.out.value, lexical)


\* the lexical scorer answered
LexicalScore == result.fn = "calculate_similarity"

\* the two names of the query fall into one category of the lookup table
QueryInOneCategory ==
    SameCategory(LookupKey(StripTablePrefix(result.args[1])),
                 LookupKey(StripTablePrefix(result.args[2])))

\* C19: FieldMatcherML.calculate_similarity separates the reference pairs at
\* 0.7: ("firstName","first_name") and ("ssn","social_security_number") score
\* at least 0.7 and ("firstName","accountNumber") scores below it; two names
\* of one lookup category that differ beyond case score exactly 0.95.
C19_ReferencePairs ==
    LexicalScore =>
        /\ result.args \in SimilarReferences
              => AtLeast(result.out.value, DefaultThreshold)
        /\ result.args \in DissimilarReferences
              => ~AtLeast(result.out.value, DefaultThreshold)
        /\ (QueryInOneCategory /\ ~CaseEqual(result.args))
              => result.out.value = <<95, 100>>

C19_Witness ==
    /\ LexicalScore
    /\ result.args = <<N_firstName, N_first_name>>
    /\ result.out.value = <<95, 100>>


\* the loss of one similar pair on a network: ||emb1 - emb2||^2
SimilarLoss(net, pair) ==
    SumSquares(VecDiff(get_embedding(net, pair[1]).value,
                       get_embedding(net, pair[2]).value))

\* the loss of one dissimilar pair: (margin - distance)^2 below the margin
DissimilarLoss(net, pair) ==
    LET sq == SumSquares(VecDiff(get_embedding(net, pair[1]).value,
                                 get_embedding(net, pair[2]).value))
    IN  IF sq < Margin * Margin
        THEN (Margin - ISqrtNear(sq)) * (Margin - ISqrtNear(sq))
        ELSE 0

\* the aggregate contrastive loss of a network over the pair lists of the call
ContrastiveLoss(net) ==
    SumSeq([k \in 1..Len(train.similar) |-> SimilarLoss(net, train.similar[k])])
      + SumSeq([k \in 1..Len(train.dissimilar) |->
                   DissimilarLoss(net, train.dissimilar[k])])

\* train_on_pairs returns
Returns == train.active /\ ~train'.active /\ model'.trained


ForwardDone == probe.pc = Len(ReadOrder)

\* what forward read is the state the instance had between two backward calls
ReadWhole == \E k \in 1..Len(train.versions) : Weights(SeenNet) = Weights(train.versions[k])

\* what forward read mixes the arrays before and after one backward call
ReadPartial ==
    \E k \in 1..(Len(train.versions) - 1) :
        LET old == train.versions[k]
            new == train.versions[k + 1]
        IN  /\ \A i \in 1..Len(ReadOrder) :
                  probe.seen[i] \in {old[ReadOrder[i]], new[ReadOrder[i]]}
            /\ \E i \in 1..Len(ReadOrder) :
                  probe.seen[i] = new[ReadOrder[i]] /\ probe.seen[i] # old[ReadOrder[i]]
            /\ \E i \in 1..Len(ReadOrder) :
                  probe.seen[i] = old[ReadOrder[i]] /\ probe.seen[i] # new[ReadOrder[i]]

\* the order of updates the claim names
OutputLayerFirst == <<"W3", "b3", "W2", "b2", "W1", "b1">>

\* C21: inside backward the arrays are updated one after another in the order
\* W3, b3, W2, b2, W1, b1, the later ones still holding their old value; a
\* forward that is not concurrent with backward reads only whole states.
C21_PartialOnlyConcurrent ==
    /\ InBackward =>
          \A k \in 1..Len(OutputLayerFirst) :
              model[OutputLayerFirst[k]] =
                  IF k <= train.pc THEN train.pending[OutputLayerFirst[k]]
                  ELSE train.old[OutputLayerFirst[k]]
    /\ (ForwardDone /\ ~probe.concurrent) => ReadWhole

C21_Witness ==
    /\ ForwardDone
    /\ probe.concurrent
    /\ ~InBackward
    /\ ReadPartial
    /\ ~ReadWhole
    /\ result.fn = "forward"


\* the index of a vocabulary symbol, counted from 0 along the vocabulary string
SymbolIndex(c) == IndexIn(VocabChars, c) - 1

\* the adjacent pairs of the folded name that fall into a bucket
PairsInBucket(name, b) ==
    {i \in 1..(Len(name) - 1) :
        /\ Supported(name[i])
        /\ Supported(name[i + 1])
        /\ (SymbolIndex(name[i]) + SymbolIndex(name[i + 1])) % Len(VocabChars) = b}

Reverse(s) == [i \in 1..Len(s) |-> s[Len(s) + 1 - i]]

\* entries V+1..2V of an encoding that holds both histograms
BigramPart(v) == SubSeq(v, Len(VocabChars) + 1, 2 * Len(VocabChars))

\* an encoding was computed that is long enough to hold both histograms
EncodedWhole == result.fn = "encode" /\ probe.input_dim >= 2 * Len(VocabChars)

\* C22: bucket (idx(c1) + idx(c2)) mod V of the bigram histogram counts the
\* adjacent pairs of the lower-cased, truncated name with both characters in
\* the vocabulary, divided by the number of such pairs; other pairs count
\* nowhere; the bigram part of a name and of its reversal are equal, and a
\* non-zero bigram part sums to 1.
C22_BigramBuckets ==
    EncodedWhole =>
        LET name  == Take(Lower(probe.s), NameLimit)
            part  == BigramPart(result.value)
            V     == Len(VocabChars)
            total == Cardinality(UNION {PairsInBucket(name, b) : b \in 0..(V - 1)})
        IN  /\ \A b \in 0..(V - 1) :
                  /\ part[b + 1][2] > 0
                  /\ part[b + 1][1] * Max2(total, 1)
                        = Cardinality(PairsInBucket(name, b)) * part[b + 1][2]
            /\ Len(probe.s) <= NameLimit =>
                  part = BigramPart(_encode_field_name(EncNet(probe.input_dim),
                                                       Reverse(probe.s)))
            /\ ~AllZero(part) => SumsToOne(part)

\* "B " folds to "b ": indices 1 + 39 wrap to bucket 0, the only pair
C22_Witness ==
    /\ EncodedWhole
    /\ probe.s = <<"@", "B", " ">>
    /\ BigramPart(result.value)[1] = <<1, 1>>
    /\ SumsToOne(BigramPart(result.value))


\* the rules of the lexical scorer for the pair it was asked about
RuleCaseEqual == CaseEqual(result.args)

RuleAcronym ==
    IF Len(result.args[1]) < Len(result.args[2])
    THEN is_acronym_match(result.args[1], result.args[2])
    ELSE is_acronym_match(result.args[2], result.args[1])

\* 0.6 * Levenshtein similarity + 0.4 * token overlap of the pair, clamped
RuleBlend ==
    LET source  == preprocess_field_name(result.args[1])
        target  == preprocess_field_name(result.args[2])
        max_len == Max2(Len(source), Len(target))
        lev     == IF max_len > 0
                   THEN <<max_len - levenshtein_distance(source, target), max_len>>
                   ELSE <<0, 1>>
        st      == OverlapTokens(result.args[1])
        tt      == OverlapTokens(result.args[2])
        tok     == IF st # {} /\ tt # {}
                   THEN <<Cardinality(st \cap tt), Cardinality(st \cup tt)>>
                   ELSE <<0, 1>>
    IN  Clamp(<<6 * lev[1] * tok[2] + 4 * tok[1] * lev[2], 10 * lev[2] * tok[2]>>)

\* C23: the rules of FieldMatcherML.calculate_similarity fire in the order
\* case-equal (1.0), same lookup category (0.95), acronym (0.90), blend; the
\* first that applies gives the score.
C23_RulePriority ==
    LexicalScore =>
        /\ RuleCaseEqual => result.out.value = <<1, 1>>
        /\ (~RuleCaseEqual /\ QueryInOneCategory) => result.out.value = <<95, 100>>
        /\ (~RuleCaseEqual /\ ~QueryInOneCategory /\ RuleAcronym)
              => result.out.value = <<90, 100>>
        /\ (~RuleCaseEqual /\ ~QueryInOneCategory /\ ~RuleAcronym)
              => FracEq(result.out.value, RuleBlend)

\* "ssn" is in the category of, and the acronym of, "social_security_number"
C23_Witness ==
    /\ LexicalScore
    /\ ~RuleCaseEqual
    /\ QueryInOneCategory
    /\ RuleAcronym
    /\ result.out.value = <<95, 100>>


HasTablePrefix(s) == \E i \in 1..Len(s) : s[i] = "."

\* C24: the score of a name with a table prefix equals the score of the name
\* without it, whichever argument carries the prefix; so "T.f" against f in
\* any casing scores 1.0.
C24_PrefixIgnored ==
    (LexicalScore /\ (HasTablePrefix(result.args[1]) \/ HasTablePrefix(result.args[2]))) =>
        /\ FracEq(result.out.value,
                  calculate_similarity(StripTablePrefix(result.args[1]),
                                       StripTablePrefix(result.args[2])))
        /\ CaseEqual(<<StripTablePrefix(result.args[1]), StripTablePrefix(result.args[2])>>)
              => result.out.value = <<1, 1>>


\* the candidates whose score for the target is not below the threshold
Reaching(target) ==
    {i \in 1..Len(result.args[2]) :
        LET similarity == calculate_similarity(target, result.args[2][i])
        IN  ~(similarity[1] * result.args[3][2] < result.args[3][1] * similarity[2])}

\* the candidates whose score for the target equals the threshold
OnThreshold(target) ==
    {i \in 1..Len(result.args[2]) :
        FracEq(calculate_similarity(target, result.args[2][i]), result.args[3])}

\* C25: a candidate is suggested only if its score reaches the threshold, and
\* every such candidate is suggested while there are at most TopN of them;
\* a record holds at most TopN suggestions; bestMatch is the first
\* suggestion, and no suggestion and no candidate reports a higher score;
\* bestMatch is None exactly when no candidate reaches the threshold.
C25_ThresholdAndBest ==
    Ranked =>
        \A t \in 1..Len(result.out) :
            LET record   == result.out[t]
                s        == record.suggestions
                reaching == Reaching(record.targetField)
                kept     == {SourceIndex(s[a].sourceField) : a \in 1..Len(s)}
            IN  /\ Len(s) <= TopN
                /\ kept \subseteq reaching
                /\ Cardinality(reaching) <= TopN => kept = reaching
                /\ (record.bestMatch = Null) <=> (reaching = {})
                /\ record.bestMatch # Null =>
                      /\ s # <<>>
                      /\ record.bestMatch = s[1]
                      /\ \A i \in reaching :
                            record.bestMatch.similarity >=
                               Round3(calculate_similarity(record.targetField,
                                                           result.args[2][i]))

\* one query with a target that nothing reaches and a target with a
\* candidate exactly on the threshold
C25_Witness ==
    /\ Ranked
    /\ \E t \in 1..Len(result.out) : result.out[t].bestMatch = Null
    /\ \E t \in 1..Len(result.out) :
          /\ result.out[t].bestMatch # Null
          /\ \E a \in 1..Len(result.out[t].suggestions) :
                SourceIndex(result.out[t].suggestions[a].sourceField)
                    \in OnThreshold(result.out[t].targetField)


Measured == result.fn = "levenshtein_distance"

RECURSIVE EditDistance(_, _)
\* the least number of single-character insertions, deletions and
\* substitutions that turn s into t
EditDistance(s, t) ==
    IF s = <<>> THEN Len(t)
    ELSE IF t = <<>> THEN Len(s)
    ELSE IF Head(s) = Head(t) THEN EditDistance(Tail(s), Tail(t))
    ELSE 1 + Min2(EditDistance(Tail(s), t),
                  Min2(EditDistance(s, Tail(t)), EditDistance(Tail(s), Tail(t))))

\* the pairs the reference recursion is evaluated on
Short == Len(result.args[1]) <= MaxNameLen + 1 /\ Len(result.args[2]) <= MaxNameLen + 1

\* C26: levenshtein_distance is the edit distance: it equals the reference
\* recursion, is 0 exactly for equal strings, is symmetric, is the length of
\* the other string when one is empty, and is at most the longer length.
C26_EditDistance ==
    Measured =>
        LET s1 == result.args[1]
            s2 == result.args[2]
        IN  /\ Short => result.value = EditDistance(s1, s2)
            /\ (result.value = 0) <=> (s1 = s2)
            /\ result.value = levenshtein_distance(s2, s1)
            /\ s1 = <<>> => result.value = Len(s2)
            /\ s2 = <<>> => result.value = Len(s1)
            /\ result.value <= Max2(Len(s1), Len(s2))

\* a distance made of a length difference and a substitution
C26_Witness ==
    /\ Measured
    /\ Short
    /\ Len(result.args[1]) > Len(result.args[2])
    /\ Len(result.args[2]) > 0
    /\ result.value > Len(result.args[1]) - Len(result.args[2])
    /\ result.value < Len(result.args[1])
    /\ result.value = EditDistance(result.args[1], result.args[2])


LoadFailed == result.fn = "FieldMatcherML" /\ result.err # "none"

\* C27: when load_model raises, the instance it was called on is as it was
\* before the call: the network FieldMatcherML constructed for some seed.
C27_FailedLoadAtomic ==
    LoadFailed =>
        \E seed \in 1..NSeeds :
            result.neural_model = __init__(DefaultInputDim, DefaultEmbeddingDim, seed)


\* C28: the lexical score does not depend on the order of the two names.
C28_Symmetric ==
    LexicalScore =>
        FracEq(result.out.value, calculate_similarity(result.args[2], result.args[1]))


\* C29: a suggestion is labelled "exact" exactly when its source equals the
\* target ignoring case; any other suggestion is "fuzzy" and reports a score
\* below 1.0.
C29_ExactIffCaseEqual ==
    Ranked =>
        \A t \in 1..Len(result.out) :
            \A a \in 1..Len(result.out[t].suggestions) :
                LET suggestion == result.out[t].suggestions[a]
                    same == CaseEqual(<<result.out[t].targetField, suggestion.sourceField>>)
                IN  /\ (suggestion.matchType = "exact") <=> same
                    /\ ~same => (suggestion.matchType = "fuzzy" /\ suggestion.similarity < 1000)


Mapped == result.fn = "suggest_mappings" /\ result.out.err = "none"

\* the number of entries of a list equal to a record
Occurrences(list, record) == Cardinality({i \in 1..Len(list) : list[i] = record})

\* C30: suggest_mappings yields one record per input field, in input order;
\* every record is in exactly one of the three lists, as often as it occurs
\* among the records, and in noMatchList exactly when its bestMatch is None;
\* the three counts are the list lengths and add up to totalFields, the
\* number of input fields.
C30_Partition ==
    Mapped =>
        LET out    == result.out
            fields == result.args[1]
            lists  == <<out.exactMatchList, out.fuzzyMatchList, out.noMatchList>>
        IN  /\ Len(out.suggestions) = Len(fields)
            /\ \A i \in 1..Len(fields) :
                  LET record == out.suggestions[i]
                      holders == {k \in 1..3 : Occurrences(lists[k], record) > 0}
                  IN  /\ record.targetField =
                            (IF fields[i].kind = "dict"
                             THEN fields[i].tableName \o <<".">> \o fields[i].fieldName
                             ELSE fields[i].value)
                      /\ Cardinality(holders) = 1
                      /\ \A k \in holders :
                            Occurrences(lists[k], record) =
                                Occurrences(out.suggestions, record)
                      /\ (3 \in holders) <=> (record.bestMatch = Null)
            /\ out.exactMatches = Len(out.exactMatchList)
            /\ out.fuzzyMatches = Len(out.fuzzyMatchList)
            /\ out.noMatches = Len(out.noMatchList)
            /\ out.exactMatches + out.fuzzyMatches + out.noMatches = out.totalFields
            /\ out.totalFields = Len(fields)

\* a request with a dict and string entries whose records fill all three lists
C30_Witness ==
    /\ Mapped
    /\ \E i \in 1..Len(result.args[1]) : result.args[1][i].kind = "dict"
    /\ \E i \in 1..Len(result.args[1]) : result.args[1][i].kind = "str"
    /\ result.out.exactMatches > 0
    /\ result.out.fuzzyMatches > 0
    /\ result.out.noMatches > 0

====
